---- MODULE Spec2Model ----
(***************************************************************************)
(* SimpleAgent (src/app/agent/agent.py): query classification, provider    *)
(* selection and dispatch, response parsing, the quality gate and the      *)
(* fallback synthesizer, as a state machine.                               *)
(*                                                                         *)
(* The request handler (src/app/main.py) and the persistence of its result *)
(* (src/app/utils/output_manager.py), for requests sharing one event loop. *)
(*                                                                         *)
(* Text is modelled at two granularities.  A query is a sequence of words  *)
(* (joined by single spaces); "keyword in query_lower" is decided from     *)
(* generated tables that list, for every word of the vocabulary, the       *)
(* keywords of agent.py that are substrings of it.  A provider reply and a *)
(* file content are sequences of lines; a line carries what the code reads *)
(* from it: its kind (blank, FILE: marker, fence, comment, other), its     *)
(* indentation, its length and whether it holds a placeholder phrase or a  *)
(* declaration keyword.                                                    *)
(***************************************************************************)
EXTENDS Integers, Sequences, FiniteSets, TLC

VARIABLES
    settings,   \* app.config.settings: the three API keys and ENABLE_CODE_GENERATION
    environ,    \* os.environ: the three API keys
    agent,      \* the SimpleAgent instance: use_openai, use_anthropic, use_gemini
    pc,         \* position of the request being processed
    query,      \* the query handed to process_query (a sequence of words)
    analysis,   \* the Analysis record of _analyze_query
    codebase,   \* the codebase argument of the adapter call in flight
    called,     \* the providers called for the current request, in order
    reply,      \* what the provider call produced
    result,     \* what process_query returned
    trace,      \* the components invoked for the current request, in order
    raised,     \* TRUE when an exception left process_query
    verdict,    \* the value returned by _is_fallback_code
    tasks,      \* the requests of the server: the locals of main.process_query
    running,    \* the request whose handler holds the event loop, 0 when none does
    clock,      \* datetime.now(), in seconds
    disk,       \* the outputs directory: temporary directories, archives, text files
    scan        \* the locals of _parse_codebase_response: the ParseState, files and i

\* the variables of the server, left alone by a component run on its own
serverVars == <<tasks, running, clock, disk>>

vars == <<settings, environ, agent, pc, query, analysis, codebase, called,
          reply, result, trace, raised, verdict, tasks, running, clock, disk, scan>>

-----------------------------------------------------------------------------
(* Bounds of the model *)

\* longest query, in words, enumerated for the classifier
MaxWords == 2
\* most pieces in a provider reply
MaxSegs == 2
\* code lines of a well-formed module in a provider reply
ModuleLines == 10
\* lines of a documentation file in a provider reply
DocLines == 4
\* longest run of equal lines in an input of the quality gate
MaxRun == 10

\* the most lines of a reply given to the parser on its own
MaxReplyLines == 5
\* the most lines of a reply scanned line by line
MaxScanLines == 4
\* the most files of a mapping given to _build_structure_tree on its own
MaxTreeFiles == 3
\* the most runs of the Fallback Synthesizer on one query
MaxSynthRuns == 2
\* requests in flight on the server
NumRequests == 2
\* the last second of the clock
MaxClock == 1

-----------------------------------------------------------------------------
(* Generic helpers *)

Range(s) == {s[i] : i \in 1..Len(s)}

RECURSIVE SumSeq(_)
SumSeq(s) == IF s = <<>> THEN 0 ELSE Head(s) + SumSeq(Tail(s))

\* sequences over S of length at most n
SeqsUpTo(S, n) == UNION {[1..k -> S] : k \in 0..n}

-----------------------------------------------------------------------------
(* Query text: words, lower-casing and substring tables *)

Vocabulary ==
    {"Create", "a", "REST", "API", "with", "FastAPI", "that", "handles",
     "user", "authentication", "Explain", "what", "is", "binary", "search", "tree",
     "build", "todo", "app", "in", "Go", "the", "concept", "of",
     "basic", "programming", "write", "code", "web", "Flask", "rust", "tests",
     "database", "React", "theory", "Describe"}

Lower(w) ==
    CASE w = "Create" -> "create"
      [] w = "REST" -> "rest"
      [] w = "API" -> "api"
      [] w = "FastAPI" -> "fastapi"
      [] w = "Explain" -> "explain"
      [] w = "Go" -> "go"
      [] w = "Flask" -> "flask"
      [] w = "React" -> "react"
      [] w = "Describe" -> "describe"
      [] OTHER -> w

SubstringsOf(w) ==
    CASE w = "api" -> {"api"}
      [] w = "app" -> {"app"}
      [] w = "authentication" -> {"auth", "authentication"}
      [] w = "build" -> {"build"}
      [] w = "concept" -> {"concept"}
      [] w = "create" -> {"create"}
      [] w = "database" -> {"data", "database"}
      [] w = "describe" -> {"describe"}
      [] w = "explain" -> {"explain"}
      [] w = "fastapi" -> {"api", "fastapi"}
      [] w = "flask" -> {"flask"}
      [] w = "go" -> {"go"}
      [] w = "programming" -> {"program"}
      [] w = "react" -> {"react"}
      [] w = "rest" -> {"rest"}
      [] w = "rust" -> {"rust"}
      [] w = "tests" -> {"ts"}
      [] w = "theory" -> {"theory"}
      [] w = "todo" -> {"todo"}
      [] w = "web" -> {"web"}
      [] OTHER -> {}

SuffixesOf(w) ==
    CASE w = "basic" -> {"c"}
      [] w = "web" -> {"web"}
      [] w = "what" -> {"what"}
      [] w = "write" -> {"write"}
      [] OTHER -> {}

PrefixesOf(w) ==
    CASE w = "app" -> {"app"}
      [] w = "code" -> {"code"}
      [] w = "is" -> {"is"}
      [] w = "programming" -> {"programming"}
      [] OTHER -> {}

code_keywords ==
    <<<<"create">>, <<"build">>, <<"develop">>, <<"implement">>, <<"write", "code">>, <<"application">>, <<"app">>, <<"program">>, <<"script">>, <<"function">>, <<"api">>, <<"service">>, <<"website">>, <<"web", "app">>, <<"database">>, <<"class">>, <<"module">>, <<"package">>, <<"framework">>>>

text_keywords ==
    <<<<"explain">>, <<"what", "is">>, <<"how", "does">>, <<"describe">>, <<"tell", "me", "about">>, <<"information">>, <<"definition">>, <<"concept">>, <<"theory">>>>

\* the probes of _generate_dependencies and _generate_package_json that are substrings
\* of a lower-cased requirement bullet
BulletSubstrings(b) ==
    CASE b = "- Database integration" -> {"database", "data"}
      [] b = "- API endpoints/REST API" -> {"api"}
      [] b = "- Data visualization/charts" -> {"data"}
      [] b = "- Data file processing" -> {"data"}
      [] OTHER -> {}

language_keywords ==
    << [lang |-> "python",     keywords |-> <<<<"python">>, <<"py">>, <<"django">>, <<"flask">>, <<"fastapi">>>>],
       [lang |-> "javascript", keywords |-> <<<<"javascript">>, <<"js">>, <<"node">>, <<"react">>, <<"vue">>, <<"angular">>>>],
       [lang |-> "typescript", keywords |-> <<<<"typescript">>, <<"ts">>>>],
       [lang |-> "java",       keywords |-> <<<<"java">>, <<"spring">>, <<"maven">>>>],
       [lang |-> "go",         keywords |-> <<<<"go">>, <<"golang">>>>],
       [lang |-> "rust",       keywords |-> <<<<"rust">>>>],
       [lang |-> "cpp",        keywords |-> <<<<"c++">>, <<"cpp">>>>],
       [lang |-> "c",          keywords |-> <<<<"c", "programming">>, <<"c", "language">>>>] >>

frameworks ==
    << [keyword |-> <<"django">>,  framework |-> "django"],
       [keyword |-> <<"flask">>,   framework |-> "flask"],
       [keyword |-> <<"fastapi">>, framework |-> "fastapi"],
       [keyword |-> <<"react">>,   framework |-> "react"],
       [keyword |-> <<"vue">>,     framework |-> "vue"],
       [keyword |-> <<"angular">>, framework |-> "angular"],
       [keyword |-> <<"express">>, framework |-> "express"],
       [keyword |-> <<"spring">>,  framework |-> "spring"] >>

\* Python's None, where a text is expected
None == "None"

\* query.lower()
query_lower(q) == [i \in 1..Len(q) |-> Lower(q[i])]

\* the keyword kw (its words) occurs in the lower-cased text ql starting in word i
KeywordAt(kw, ql, i) ==
    IF Len(kw) = 1
    THEN kw[1] \in SubstringsOf(ql[i])
    ELSE /\ i + Len(kw) - 1 <= Len(ql)
         /\ kw[1] \in SuffixesOf(ql[i])
         /\ kw[Len(kw)] \in PrefixesOf(ql[i + Len(kw) - 1])
         /\ \A j \in 2..(Len(kw) - 1) : ql[i + j - 1] = kw[j]

\* "keyword in query_lower"
KeywordIn(kw, ql) == \E i \in 1..Len(ql) : KeywordAt(kw, ql, i)

\* sum(1 for keyword in keywords if keyword in query_lower)
Score(keywords, ql) ==
    Cardinality({i \in 1..Len(keywords) : KeywordIn(keywords[i], ql)})

\* a detection that returns the last language of the table that matches
DetectLastLanguage(q) ==
    LET ql == query_lower(q)
        hits == {i \in 1..Len(language_keywords) :
                    \E j \in 1..Len(language_keywords[i].keywords) :
                        KeywordIn(language_keywords[i].keywords[j], ql)}
    IN  IF hits = {} THEN "python"
        ELSE language_keywords[CHOOSE i \in hits : \A j \in hits : i >= j].lang

_detect_language(q) ==
    LET ql == query_lower(q)
        hits == {i \in 1..Len(language_keywords) :
                    \E j \in 1..Len(language_keywords[i].keywords) :
                        KeywordIn(language_keywords[i].keywords[j], ql)}
    IN  IF hits = {} THEN "python"
        ELSE language_keywords[CHOOSE i \in hits : \A j \in hits : i <= j].lang

_detect_framework(q) ==
    LET ql == query_lower(q)
        hits == {i \in 1..Len(frameworks) : KeywordIn(frameworks[i].keyword, ql)}
    IN  IF hits = {} THEN None
        ELSE frameworks[CHOOSE i \in hits : \A j \in hits : i <= j].framework

ShouldGenerateCodeBug(code_score, text_score) == code_score >= text_score /\ code_score > 0

\* should_generate_code = code_score > text_score and code_score > 0
ShouldGenerateCode(code_score, text_score) == code_score > text_score /\ code_score > 0

_analyze_query(q) ==
    LET ql == query_lower(q)
        code_score == Score(code_keywords, ql)
        text_score == Score(text_keywords, ql)
        should_generate_code == ShouldGenerateCode(code_score, text_score)
    IN  [should_generate_code |-> should_generate_code,
         code_score |-> code_score,
         text_score |-> text_score,
         language |-> _detect_language(q),
         framework |-> _detect_framework(q),
         reason |-> IF should_generate_code THEN "Code generation suitable"
                    ELSE "Query better suited for text response"]

-----------------------------------------------------------------------------
(* Lines and file contents *)

\* A line of text.  k: "blank" (line.strip() is empty), "marker" (FILE: <path>),
\* "fence" (``` and a language tag), "comment" (starts with # or //) or "text";
\* ind: leading whitespace; a: what the line says (the path of a marker, the tag
\* of a fence, the text otherwise); len: characters after the indentation;
\* pat: holds one of the fallback_patterns (case-insensitively);
\* kw: holds one of "def ", "class ", "function ", "const ", "let ", "var ".
MkLine(k, ind, a, len, pat, kw) ==
    [k |-> k, ind |-> ind, a |-> a, len |-> len, pat |-> pat, kw |-> kw]

BlankLine == MkLine("blank", 0, <<>>, 0, FALSE, FALSE)

\* x = compute(1)
CodeLine == MkLine("text", 0, <<"x = compute(1)">>, 14, FALSE, FALSE)
\* print('Hello, World')
HelloLine == MkLine("text", 0, <<"print('Hello, World')">>, 21, TRUE, FALSE)
\* def main():
DefLine == MkLine("text", 0, <<"def main():">>, 11, FALSE, TRUE)
\* # setup
CommentLine == MkLine("comment", 0, <<"# setup">>, 7, FALSE, FALSE)
\* a sentence of prose that holds the phrase "placeholder"
PlaceholderProse ==
    MkLine("text", 0, <<"This module is a placeholder for the real implementation.">>,
           57, TRUE, FALSE)
\* a sentence of prose
ProseLine ==
    MkLine("text", 0, <<"The service stores every record in one table.">>, 45, FALSE, FALSE)

\* len(s) of a string
StrLen(s) == Len(s)

\* len(' '.join(words))
WordsLen(words) ==
    IF words = <<>> THEN 0
    ELSE SumSeq([i \in 1..Len(words) |-> StrLen(words[i])]) + Len(words) - 1

Indent(line, n) == [line EXCEPT !.ind = n]

\* n copies of a line
Rep(line, n) == [i \in 1..n |-> line]

IsBlank(line) == line.k = "blank"

\* line.strip() and not line.strip().startswith('#') and not line.strip().startswith('//')
IsCodeLine(line) == line.k # "blank" /\ line.k # "comment"

\* len(content) of a content given as its lines
ContentLen(c) ==
    IF c = <<>> THEN 0
    ELSE SumSeq([i \in 1..Len(c) |-> c[i].ind + c[i].len]) + Len(c) - 1

\* the non-comment, non-blank lines of a content
CodeLineCount(c) == Cardinality({i \in 1..Len(c) : IsCodeLine(c[i])})

HasPattern(c) == \E i \in 1..Len(c) : c[i].pat

HasKeyword(c) == \E i \in 1..Len(c) : c[i].kw

\* '\n'.join(lines).strip(): leading and trailing blank lines go, and so does the
\* leading whitespace of the first remaining line
StripContent(c) ==
    LET keep == {i \in 1..Len(c) : ~IsBlank(c[i])}
    IN  IF keep = {} THEN <<>>
        ELSE LET lo == CHOOSE i \in keep : \A j \in keep : i <= j
                 hi == CHOOSE i \in keep : \A j \in keep : i >= j
                 body == SubSeq(c, lo, hi)
             IN  [body EXCEPT ![1] = Indent(body[1], 0)]

-----------------------------------------------------------------------------
(* The files mapping: a Python dict, which keeps insertion order *)

\* a path is the sequence of its segments: "docs/readme.md" is <<"docs", "readme.md">>
File(path, content) == [path |-> path, content |-> content]

Keys(files) == [i \in 1..Len(files) |-> files[i].path]

HasKey(files, path) == \E i \in 1..Len(files) : files[i].path = path

Get(files, path) == files[CHOOSE i \in 1..Len(files) : files[i].path = path].content

\* files[path] = content
Put(files, path, content) ==
    IF HasKey(files, path)
    THEN [i \in 1..Len(files) |->
            IF files[i].path = path THEN File(path, content) ELSE files[i]]
    ELSE Append(files, File(path, content))

-----------------------------------------------------------------------------
(* The quality gate *)

\* len(content) > 200
SubstantialLen == 200
\* more than 5 non-comment lines beside a declaration keyword
MinDeclLines == 5
\* total_code_lines < 10
MinCodeLines == 10

\* the two "return False" of the loop over the files
EarlyAccept(content) ==
    /\ HasPattern(content)
    /\ \/ ContentLen(content) > SubstantialLen
       \/ HasKeyword(content) /\ CodeLineCount(content) > MinDeclLines

total_code_lines(files) ==
    SumSeq([i \in 1..Len(files) |-> CodeLineCount(files[i].content)])

IsFallbackCodeLax(res) ==
    IF res.files = <<>> THEN TRUE
    ELSE IF \E i \in 1..Len(res.files) : EarlyAccept(res.files[i].content) THEN FALSE
    ELSE total_code_lines(res.files) <= MinCodeLines

_is_fallback_code(res) ==
    IF res.files = <<>> THEN TRUE
    ELSE IF \E i \in 1..Len(res.files) : EarlyAccept(res.files[i].content) THEN FALSE
    ELSE total_code_lines(res.files) < MinCodeLines

\* What the code reads from a path f: parts is f.split('/'); readme is
\* f.lower().endswith('readme.md'); doc is f.startswith('README') or f.endswith('.md');
\* entry is f.endswith('main.py') or ... or f == 'index.js'; source is f.endswith('.py')
\* or '.js' or '.ts'; web is 'app' in f.lower() or 'server' ... or 'api' ...; rank is the
\* place of f in sorted() order among the paths of the model.
PathInfo(p) ==
    CASE p = "main.py" ->
            [parts |-> <<"main.py">>, readme |-> FALSE, doc |-> FALSE,
             entry |-> TRUE, source |-> TRUE, web |-> FALSE, rank |-> 51]
      [] p = "main.js" ->
            [parts |-> <<"main.js">>, readme |-> FALSE, doc |-> FALSE,
             entry |-> TRUE, source |-> TRUE, web |-> FALSE, rank |-> 48]
      [] p = "main.ts" ->
            [parts |-> <<"main.ts">>, readme |-> FALSE, doc |-> FALSE,
             entry |-> TRUE, source |-> TRUE, web |-> FALSE, rank |-> 54]
      [] p = "main.html" ->
            [parts |-> <<"main.html">>, readme |-> FALSE, doc |-> FALSE,
             entry |-> FALSE, source |-> FALSE, web |-> FALSE, rank |-> 45]
      [] p = "main.css" ->
            [parts |-> <<"main.css">>, readme |-> FALSE, doc |-> FALSE,
             entry |-> FALSE, source |-> FALSE, web |-> FALSE, rank |-> 43]
      [] p = "main.json" ->
            [parts |-> <<"main.json">>, readme |-> FALSE, doc |-> FALSE,
             entry |-> FALSE, source |-> FALSE, web |-> FALSE, rank |-> 49]
      [] p = "main.yml" ->
            [parts |-> <<"main.yml">>, readme |-> FALSE, doc |-> FALSE,
             entry |-> FALSE, source |-> FALSE, web |-> FALSE, rank |-> 57]
      [] p = "main.md" ->
            [parts |-> <<"main.md">>, readme |-> FALSE, doc |-> TRUE,
             entry |-> FALSE, source |-> FALSE, web |-> FALSE, rank |-> 50]
      [] p = "main.txt" ->
            [parts |-> <<"main.txt">>, readme |-> FALSE, doc |-> FALSE,
             entry |-> FALSE, source |-> FALSE, web |-> FALSE, rank |-> 55]
      [] p = "file.py" ->
            [parts |-> <<"file.py">>, readme |-> FALSE, doc |-> FALSE,
             entry |-> FALSE, source |-> TRUE, web |-> FALSE, rank |-> 15]
      [] p = "file.js" ->
            [parts |-> <<"file.js">>, readme |-> FALSE, doc |-> FALSE,
             entry |-> FALSE, source |-> TRUE, web |-> FALSE, rank |-> 12]
      [] p = "file.ts" ->
            [parts |-> <<"file.ts">>, readme |-> FALSE, doc |-> FALSE,
             entry |-> FALSE, source |-> TRUE, web |-> FALSE, rank |-> 16]
      [] p = "file.html" ->
            [parts |-> <<"file.html">>, readme |-> FALSE, doc |-> FALSE,
             entry |-> FALSE, source |-> FALSE, web |-> FALSE, rank |-> 11]
      [] p = "file.css" ->
            [parts |-> <<"file.css">>, readme |-> FALSE, doc |-> FALSE,
             entry |-> FALSE, source |-> FALSE, web |-> FALSE, rank |-> 10]
      [] p = "file.json" ->
            [parts |-> <<"file.json">>, readme |-> FALSE, doc |-> FALSE,
             entry |-> FALSE, source |-> FALSE, web |-> FALSE, rank |-> 13]
      [] p = "file.yml" ->
            [parts |-> <<"file.yml">>, readme |-> FALSE, doc |-> FALSE,
             entry |-> FALSE, source |-> FALSE, web |-> FALSE, rank |-> 18]
      [] p = "file.md" ->
            [parts |-> <<"file.md">>, readme |-> FALSE, doc |-> TRUE,
             entry |-> FALSE, source |-> FALSE, web |-> FALSE, rank |-> 14]
      [] p = "file.txt" ->
            [parts |-> <<"file.txt">>, readme |-> FALSE, doc |-> FALSE,
             entry |-> FALSE, source |-> FALSE, web |-> FALSE, rank |-> 17]
      [] p = "file_1.py" ->
            [parts |-> <<"file_1.py">>, readme |-> FALSE, doc |-> FALSE,
             entry |-> FALSE, source |-> TRUE, web |-> FALSE, rank |-> 23]
      [] p = "file_1.js" ->
            [parts |-> <<"file_1.js">>, readme |-> FALSE, doc |-> FALSE,
             entry |-> FALSE, source |-> TRUE, web |-> FALSE, rank |-> 21]
      [] p = "file_1.ts" ->
            [parts |-> <<"file_1.ts">>, readme |-> FALSE, doc |-> FALSE,
             entry |-> FALSE, source |-> TRUE, web |-> FALSE, rank |-> 24]
      [] p = "file_1.html" ->
            [parts |-> <<"file_1.html">>, readme |-> FALSE, doc |-> FALSE,
             entry |-> FALSE, source |-> FALSE, web |-> FALSE, rank |-> 20]
      [] p = "file_1.css" ->
            [parts |-> <<"file_1.css">>, readme |-> FALSE, doc |-> FALSE,
             entry |-> FALSE, source |-> FALSE, web |-> FALSE, rank |-> 19]
      [] p = "file_1.json" ->
            [parts |-> <<"file_1.json">>, readme |-> FALSE, doc |-> FALSE,
             entry |-> FALSE, source |-> FALSE, web |-> FALSE, rank |-> 22]
      [] p = "file_1.txt" ->
            [parts |-> <<"file_1.txt">>, readme |-> FALSE, doc |-> FALSE,
             entry |-> FALSE, source |-> FALSE, web |-> FALSE, rank |-> 25]
      [] p = "file_2.py" ->
            [parts |-> <<"file_2.py">>, readme |-> FALSE, doc |-> FALSE,
             entry |-> FALSE, source |-> TRUE, web |-> FALSE, rank |-> 30]
      [] p = "file_2.js" ->
            [parts |-> <<"file_2.js">>, readme |-> FALSE, doc |-> FALSE,
             entry |-> FALSE, source |-> TRUE, web |-> FALSE, rank |-> 28]
      [] p = "file_2.ts" ->
            [parts |-> <<"file_2.ts">>, readme |-> FALSE, doc |-> FALSE,
             entry |-> FALSE, source |-> TRUE, web |-> FALSE, rank |-> 31]
      [] p = "file_2.html" ->
            [parts |-> <<"file_2.html">>, readme |-> FALSE, doc |-> FALSE,
             entry |-> FALSE, source |-> FALSE, web |-> FALSE, rank |-> 27]
      [] p = "file_2.css" ->
            [parts |-> <<"file_2.css">>, readme |-> FALSE, doc |-> FALSE,
             entry |-> FALSE, source |-> FALSE, web |-> FALSE, rank |-> 26]
      [] p = "file_2.json" ->
            [parts |-> <<"file_2.json">>, readme |-> FALSE, doc |-> FALSE,
             entry |-> FALSE, source |-> FALSE, web |-> FALSE, rank |-> 29]
      [] p = "file_2.txt" ->
            [parts |-> <<"file_2.txt">>, readme |-> FALSE, doc |-> FALSE,
             entry |-> FALSE, source |-> FALSE, web |-> FALSE, rank |-> 32]
      [] p = "file_3.py" ->
            [parts |-> <<"file_3.py">>, readme |-> FALSE, doc |-> FALSE,
             entry |-> FALSE, source |-> TRUE, web |-> FALSE, rank |-> 37]
      [] p = "file_3.js" ->
            [parts |-> <<"file_3.js">>, readme |-> FALSE, doc |-> FALSE,
             entry |-> FALSE, source |-> TRUE, web |-> FALSE, rank |-> 35]
      [] p = "file_3.ts" ->
            [parts |-> <<"file_3.ts">>, readme |-> FALSE, doc |-> FALSE,
             entry |-> FALSE, source |-> TRUE, web |-> FALSE, rank |-> 38]
      [] p = "file_3.html" ->
            [parts |-> <<"file_3.html">>, readme |-> FALSE, doc |-> FALSE,
             entry |-> FALSE, source |-> FALSE, web |-> FALSE, rank |-> 34]
      [] p = "file_3.css" ->
            [parts |-> <<"file_3.css">>, readme |-> FALSE, doc |-> FALSE,
             entry |-> FALSE, source |-> FALSE, web |-> FALSE, rank |-> 33]
      [] p = "file_3.json" ->
            [parts |-> <<"file_3.json">>, readme |-> FALSE, doc |-> FALSE,
             entry |-> FALSE, source |-> FALSE, web |-> FALSE, rank |-> 36]
      [] p = "file_3.txt" ->
            [parts |-> <<"file_3.txt">>, readme |-> FALSE, doc |-> FALSE,
             entry |-> FALSE, source |-> FALSE, web |-> FALSE, rank |-> 39]
      [] p = "main.python" ->
            [parts |-> <<"main.python">>, readme |-> FALSE, doc |-> FALSE,
             entry |-> FALSE, source |-> FALSE, web |-> FALSE, rank |-> 52]
      [] p = "main.javascript" ->
            [parts |-> <<"main.javascript">>, readme |-> FALSE, doc |-> FALSE,
             entry |-> FALSE, source |-> FALSE, web |-> FALSE, rank |-> 47]
      [] p = "main.typescript" ->
            [parts |-> <<"main.typescript">>, readme |-> FALSE, doc |-> FALSE,
             entry |-> FALSE, source |-> FALSE, web |-> FALSE, rank |-> 56]
      [] p = "main.java" ->
            [parts |-> <<"main.java">>, readme |-> FALSE, doc |-> FALSE,
             entry |-> FALSE, source |-> FALSE, web |-> FALSE, rank |-> 46]
      [] p = "main.go" ->
            [parts |-> <<"main.go">>, readme |-> FALSE, doc |-> FALSE,
             entry |-> FALSE, source |-> FALSE, web |-> FALSE, rank |-> 44]
      [] p = "main.rust" ->
            [parts |-> <<"main.rust">>, readme |-> FALSE, doc |-> FALSE,
             entry |-> FALSE, source |-> FALSE, web |-> FALSE, rank |-> 53]
      [] p = "main.cpp" ->
            [parts |-> <<"main.cpp">>, readme |-> FALSE, doc |-> FALSE,
             entry |-> FALSE, source |-> FALSE, web |-> FALSE, rank |-> 42]
      [] p = "main.c" ->
            [parts |-> <<"main.c">>, readme |-> FALSE, doc |-> FALSE,
             entry |-> FALSE, source |-> FALSE, web |-> FALSE, rank |-> 41]
      [] p = "README.md" ->
            [parts |-> <<"README.md">>, readme |-> TRUE, doc |-> TRUE,
             entry |-> FALSE, source |-> FALSE, web |-> FALSE, rank |-> 4]
      [] p = "requirements.txt" ->
            [parts |-> <<"requirements.txt">>, readme |-> FALSE, doc |-> FALSE,
             entry |-> FALSE, source |-> FALSE, web |-> FALSE, rank |-> 61]
      [] p = "package.json" ->
            [parts |-> <<"package.json">>, readme |-> FALSE, doc |-> FALSE,
             entry |-> FALSE, source |-> FALSE, web |-> FALSE, rank |-> 60]
      [] p = "app.py" ->
            [parts |-> <<"app.py">>, readme |-> FALSE, doc |-> FALSE,
             entry |-> TRUE, source |-> TRUE, web |-> TRUE, rank |-> 8]
      [] p = "docs/readme.md" ->
            [parts |-> <<"docs", "readme.md">>, readme |-> TRUE, doc |-> TRUE,
             entry |-> FALSE, source |-> FALSE, web |-> FALSE, rank |-> 9]
      [] p = "src/app.py" ->
            [parts |-> <<"src", "app.py">>, readme |-> FALSE, doc |-> FALSE,
             entry |-> FALSE, source |-> TRUE, web |-> TRUE, rank |-> 63]
      [] p = "notes.md" ->
            [parts |-> <<"notes.md">>, readme |-> FALSE, doc |-> TRUE,
             entry |-> FALSE, source |-> FALSE, web |-> FALSE, rank |-> 59]
      [] p = "myreadme.md" ->
            [parts |-> <<"myreadme.md">>, readme |-> TRUE, doc |-> TRUE,
             entry |-> FALSE, source |-> FALSE, web |-> FALSE, rank |-> 58]
      [] p = "README.txt" ->
            [parts |-> <<"README.txt">>, readme |-> FALSE, doc |-> TRUE,
             entry |-> FALSE, source |-> FALSE, web |-> FALSE, rank |-> 5]
      [] p = "a" ->
            [parts |-> <<"a">>, readme |-> FALSE, doc |-> FALSE,
             entry |-> FALSE, source |-> FALSE, web |-> FALSE, rank |-> 6]
      [] p = "a/b" ->
            [parts |-> <<"a", "b">>, readme |-> FALSE, doc |-> FALSE,
             entry |-> FALSE, source |-> FALSE, web |-> FALSE, rank |-> 7]
      [] p = "../evil.py" ->
            [parts |-> <<"..", "evil.py">>, readme |-> FALSE, doc |-> FALSE,
             entry |-> FALSE, source |-> TRUE, web |-> FALSE, rank |-> 2]
      [] p = "/etc/passwd" ->
            [parts |-> <<"", "etc", "passwd">>, readme |-> FALSE, doc |-> FALSE,
             entry |-> FALSE, source |-> FALSE, web |-> FALSE, rank |-> 3]
      [] p = "index.js" ->
            [parts |-> <<"index.js">>, readme |-> FALSE, doc |-> FALSE,
             entry |-> TRUE, source |-> TRUE, web |-> FALSE, rank |-> 40]
      [] p = "src/../../x.py" ->
            [parts |-> <<"src", "..", "..", "x.py">>, readme |-> FALSE, doc |-> FALSE,
             entry |-> FALSE, source |-> TRUE, web |-> FALSE, rank |-> 62]
      [] p = "" ->
            [parts |-> <<"">>, readme |-> FALSE, doc |-> FALSE,
             entry |-> FALSE, source |-> FALSE, web |-> FALSE, rank |-> 1]

\* code_block_lang.lower()
LowerTag(t) ==
    CASE t = "Python" -> "python"
      [] OTHER -> t

\* the tag is matched whole by \w+
IsWordTag(t) == t \in {"python", "Python", "py", "javascript", "js", "typescript", "ts", "html", "css", "json", "yaml", "yml", "markdown", "md", "go", "bash", "rust", "java", "cpp", "c"}

\* 'main' in code_block_lang.lower()
TagHasMain(t) == t \in {}

\* language.capitalize()
Capitalize(s) ==
    CASE s = "python" -> "Python"
      [] s = "javascript" -> "Javascript"
      [] s = "typescript" -> "Typescript"
      [] s = "java" -> "Java"
      [] s = "go" -> "Go"
      [] s = "rust" -> "Rust"
      [] s = "cpp" -> "Cpp"
      [] s = "c" -> "C"

-----------------------------------------------------------------------------
(* Requirement extraction *)

\* "<probe>" in query.lower()
InQuery(probe, q) == KeywordIn(<<probe>>, query_lower(q))

\* the topical groups of _extract_requirements, in the order of its if statements
requirement_groups ==
    << [probes |-> {"authentication", "login", "auth"},
        bullet |-> "- User authentication/login functionality"],
       [probes |-> {"database", "db", "sql"},
        bullet |-> "- Database integration"],
       [probes |-> {"api", "rest", "endpoint"},
        bullet |-> "- API endpoints/REST API"],
       [probes |-> {"crud", "create", "read", "update", "delete"},
        bullet |-> "- CRUD operations"],
       [probes |-> {"todo", "task"},
        bullet |-> "- Todo/task management features"],
       [probes |-> {"web", "website", "html"},
        bullet |-> "- Web interface/HTML pages"],
       [probes |-> {"visualization", "chart", "graph", "plot"},
        bullet |-> "- Data visualization/charts"],
       [probes |-> {"csv", "excel", "data"},
        bullet |-> "- Data file processing"],
       [probes |-> {"cli", "command", "terminal"},
        bullet |-> "- Command-line interface"] >>

GenericBullet == "- Implement the functionality described in the user's request"

GroupMatches(g, q) == \E probe \in requirement_groups[g].probes : InQuery(probe, q)

RECURSIVE SelectSeq2(_, _, _)
\* the elements s[i] of s, i from lo on, whose index is in keep, in order
SelectSeq2(s, keep, lo) ==
    IF lo > Len(s) THEN <<>>
    ELSE (IF lo \in keep THEN <<s[lo]>> ELSE <<>>) \o SelectSeq2(s, keep, lo + 1)

\* an extraction that stops at the first group that matches
ExtractFirstRequirement(q) ==
    LET matched == {g \in 1..Len(requirement_groups) : GroupMatches(g, q)}
    IN  IF matched = {} THEN <<GenericBullet>>
        ELSE <<requirement_groups[CHOOSE g \in matched : \A h \in matched : g <= h].bullet>>

\* the bullets, one per line of the returned text
_extract_requirements(q) ==
    LET matched == {g \in 1..Len(requirement_groups) : GroupMatches(g, q)}
        bullets == [g \in 1..Len(requirement_groups) |-> requirement_groups[g].bullet]
    IN  IF matched = {} THEN <<GenericBullet>>
        ELSE SelectSeq2(bullets, matched, 1)

\* "<probe>" in requirements.lower()
InRequirements(probe, requirements) ==
    \E i \in 1..Len(requirements) : probe \in BulletSubstrings(requirements[i])

BulletLine(b) == MkLine("text", 0, <<b>>, StrLen(b), FALSE, FALSE)

RequirementLines(requirements) ==
    [i \in 1..Len(requirements) |-> BulletLine(requirements[i])]

\* a line that is the query and nothing else
QueryLine(q) ==
    IF q = <<>> THEN BlankLine
    ELSE MkLine("text", 0, q, WordsLen(q), FALSE, FALSE)

\* query[:n]; the queries of the model are shorter than the cuts the code makes
Truncated(q, n) == IF WordsLen(q) <= n THEN q ELSE <<"<cut>">>

\* a line, or nothing, by a condition
Opt(cond, lines) == IF cond THEN lines ELSE <<>>

-----------------------------------------------------------------------------
(* The fallback synthesizer *)

_generate_python_code(q, requirements, framework) ==
    LET header ==
            << MkLine("text", 0, <<"\"\"\"">>, 3, FALSE, FALSE), MkLine("text", 0, <<"Generated by SimpleAgent">>, 24, FALSE, FALSE), MkLine("text", 0, <<"Query: ">> \o q, 7 + WordsLen(q), FALSE, FALSE), MkLine("text", 0, <<"\"\"\"">>, 3, FALSE, FALSE), MkLine("blank", 0, <<>>, 0, FALSE, FALSE) >>
        imports ==
            Opt(InQuery("api", q) \/ InQuery("rest", q),
                IF framework = "fastapi"
                THEN << MkLine("text", 0, <<"from fastapi import FastAPI, HTTPException">>, 42, FALSE, FALSE),
                        MkLine("text", 0, <<"from pydantic import BaseModel">>, 30, FALSE, FALSE) >>
                ELSE IF framework = "flask"
                THEN << MkLine("text", 0, <<"from flask import Flask, request, jsonify">>, 41, FALSE, FALSE) >>
                ELSE << MkLine("text", 0, <<"from http.server import HTTPServer, BaseHTTPRequestHandler">>, 58, FALSE, FALSE),
                        MkLine("text", 0, <<"import json">>, 11, FALSE, FALSE) >>)
            \o Opt(InQuery("database", q) \/ InQuery("db", q) \/ InQuery("sql", q),
                   << MkLine("text", 0, <<"import sqlite3">>, 14, FALSE, FALSE), MkLine("text", 0, <<"import os">>, 9, FALSE, FALSE) >>)
            \o Opt(InQuery("csv", q) \/ InQuery("data", q),
                   << MkLine("text", 0, <<"import csv">>, 10, FALSE, FALSE), MkLine("text", 0, <<"import pandas as pd">>, 19, FALSE, FALSE) >>)
            \o Opt(InQuery("authentication", q) \/ InQuery("login", q) \/ InQuery("auth", q),
                   << MkLine("text", 0, <<"import hashlib">>, 14, FALSE, FALSE), MkLine("text", 0, <<"import secrets">>, 14, FALSE, FALSE) >>)
            \o Opt(InQuery("todo", q) \/ InQuery("task", q),
                   << MkLine("text", 0, <<"from datetime import datetime">>, 29, FALSE, FALSE),
                      MkLine("text", 0, <<"from typing import List, Dict, Optional">>, 39, FALSE, FALSE) >>)
        main ==
            IF framework = "fastapi"
            THEN << MkLine("text", 0, <<"app = FastAPI(title=\"Generated Application\")">>, 44, FALSE, FALSE), MkLine("blank", 0, <<>>, 0, FALSE, FALSE),
                    MkLine("text", 0, <<"@app.get(\"/\")">>, 13, FALSE, FALSE), MkLine("text", 0, <<"def read_root():">>, 16, FALSE, TRUE),
                    MkLine("text", 4, <<"return {\"message\": \"Application is running\"}">>, 44, FALSE, FALSE), MkLine("blank", 0, <<>>, 0, FALSE, FALSE),
                    MkLine("text", 0, <<"@app.get(\"/health\")">>, 19, FALSE, FALSE), MkLine("text", 0, <<"def health_check():">>, 19, FALSE, TRUE),
                    MkLine("text", 4, <<"return {\"status\": \"healthy\"}">>, 28, FALSE, FALSE), MkLine("blank", 0, <<>>, 0, FALSE, FALSE) >>
            ELSE IF framework = "flask"
            THEN << MkLine("text", 0, <<"app = Flask(__name__)">>, 21, FALSE, FALSE), MkLine("blank", 0, <<>>, 0, FALSE, FALSE),
                    MkLine("text", 0, <<"@app.route('/')">>, 15, FALSE, FALSE), MkLine("text", 0, <<"def index():">>, 12, FALSE, TRUE),
                    MkLine("text", 4, <<"return jsonify({\"message\": \"Application is running\"})">>, 53, FALSE, FALSE), MkLine("blank", 0, <<>>, 0, FALSE, FALSE) >>
            ELSE << MkLine("text", 0, <<"def main():">>, 11, FALSE, TRUE),
                    MkLine("text", 4, <<"\"\"\"Main function implementing the requested functionality\"\"\"">>, 60, FALSE, TRUE) >>
                 \o (IF InQuery("todo", q) \/ InQuery("task", q)
                     THEN << MkLine("comment", 4, <<"# Todo list functionality">>, 25, FALSE, FALSE), MkLine("text", 4, <<"todos = []">>, 10, FALSE, FALSE),
                             MkLine("text", 4, <<"print(\"Todo list application initialized\")">>, 42, FALSE, FALSE) >>
                     ELSE IF InQuery("api", q)
                     THEN << MkLine("comment", 4, <<"# API functionality">>, 19, FALSE, FALSE),
                             MkLine("text", 4, <<"print(\"API server would start here\")">>, 36, FALSE, FALSE) >>
                     ELSE IF InQuery("database", q)
                     THEN << MkLine("comment", 4, <<"# Database functionality">>, 24, FALSE, FALSE),
                             MkLine("text", 4, <<"print(\"Database operations would be performed here\")">>, 52, FALSE, FALSE) >>
                     ELSE << MkLine("comment", 4, <<"# Implement: ">> \o Truncated(q, 100), 13 + WordsLen(Truncated(q, 100)), FALSE, FALSE),
                             MkLine("text", 4, <<"print(\"Application started\")">>, 28, FALSE, FALSE) >>)
                 \o << MkLine("blank", 0, <<>>, 0, FALSE, FALSE), MkLine("text", 0, <<"if __name__ == \"__main__\":">>, 26, FALSE, FALSE), MkLine("text", 4, <<"main()">>, 6, FALSE, FALSE) >>
    IN  header \o Opt(imports # <<>>, imports \o << MkLine("blank", 0, <<>>, 0, FALSE, FALSE) >>) \o main

_generate_js_code(q, requirements, framework, ext) ==
    LET header ==
            IF ext = "ts"
            THEN << MkLine("comment", 0, <<"// Generated by SimpleAgent">>, 27, FALSE, FALSE), MkLine("comment", 0, <<"// Query: ">> \o q, 10 + WordsLen(q), FALSE, FALSE), MkLine("blank", 0, <<>>, 0, FALSE, FALSE),
                    MkLine("text", 0, <<"interface Config {">>, 18, FALSE, FALSE), MkLine("comment", 2, <<"// Add configuration interface here">>, 35, FALSE, FALSE),
                    MkLine("text", 0, <<"}">>, 1, FALSE, FALSE), MkLine("blank", 0, <<>>, 0, FALSE, FALSE) >>
            ELSE << MkLine("comment", 0, <<"// Generated by SimpleAgent">>, 27, FALSE, FALSE), MkLine("comment", 0, <<"// Query: ">> \o q, 10 + WordsLen(q), FALSE, FALSE), MkLine("blank", 0, <<>>, 0, FALSE, FALSE) >>
        main ==
            IF framework = "react"
            THEN << MkLine("text", 0, <<"import React from 'react';">>, 26, FALSE, FALSE), MkLine("blank", 0, <<>>, 0, FALSE, FALSE), MkLine("text", 0, <<"function App() {">>, 16, FALSE, TRUE),
                    MkLine("text", 2, <<"return (">>, 8, FALSE, FALSE), MkLine("text", 4, <<"<div className=\"App\">">>, 21, FALSE, FALSE),
                    MkLine("text", 6, <<"<h1>Generated Application</h1>">>, 30, FALSE, FALSE), MkLine("text", 4, <<"</div>">>, 6, FALSE, FALSE), MkLine("text", 2, <<");">>, 2, FALSE, FALSE),
                    MkLine("text", 0, <<"}">>, 1, FALSE, FALSE), MkLine("blank", 0, <<>>, 0, FALSE, FALSE), MkLine("text", 0, <<"export default App;">>, 19, FALSE, FALSE) >>
            ELSE IF framework = "express" \/ InQuery("api", q)
            THEN << MkLine("text", 0, <<"const express = require('express');">>, 35, FALSE, TRUE), MkLine("text", 0, <<"const app = express();">>, 22, FALSE, TRUE), MkLine("blank", 0, <<>>, 0, FALSE, FALSE),
                    MkLine("text", 0, <<"app.use(express.json());">>, 24, FALSE, FALSE), MkLine("blank", 0, <<>>, 0, FALSE, FALSE), MkLine("text", 0, <<"app.get('/', (req, res) => {">>, 28, FALSE, FALSE),
                    MkLine("text", 2, <<"res.json({ message: 'Application is running' });">>, 48, FALSE, FALSE), MkLine("text", 0, <<"});">>, 3, FALSE, FALSE), MkLine("blank", 0, <<>>, 0, FALSE, FALSE),
                    MkLine("text", 0, <<"const PORT = process.env.PORT || 3000;">>, 38, FALSE, TRUE), MkLine("text", 0, <<"app.listen(PORT, () => {">>, 24, FALSE, FALSE),
                    MkLine("text", 2, <<"console.log('Server running on port ${PORT}');">>, 46, FALSE, FALSE), MkLine("text", 0, <<"});">>, 3, FALSE, FALSE) >>
            ELSE << MkLine("comment", 0, <<"// Main application code">>, 24, FALSE, FALSE), MkLine("text", 0, <<"function main() {">>, 17, FALSE, TRUE),
                    MkLine("comment", 2, <<"// Implement: ">> \o Truncated(q, 80), 14 + WordsLen(Truncated(q, 80)), FALSE, FALSE),
                    MkLine("text", 2, <<"console.log('Application started');">>, 35, FALSE, FALSE), MkLine("text", 0, <<"}">>, 1, FALSE, FALSE), MkLine("blank", 0, <<>>, 0, FALSE, FALSE), MkLine("text", 0, <<"main();">>, 7, FALSE, FALSE) >>
    IN  header \o main

_generate_dependencies(requirements, language, framework) ==
    LET deps ==
            Opt(language = "python",
                (IF framework = "fastapi"
                 THEN << MkLine("text", 0, <<"fastapi==0.104.1">>, 16, FALSE, FALSE), MkLine("text", 0, <<"uvicorn[standard]==0.24.0">>, 25, FALSE, FALSE) >>
                 ELSE IF framework = "flask" THEN << MkLine("text", 0, <<"flask==3.0.0">>, 12, FALSE, FALSE) >>
                 ELSE <<>>)
                \o Opt(InRequirements("database", requirements)
                         \/ InRequirements("sql", requirements),
                       << MkLine("text", 0, <<"sqlalchemy==2.0.23">>, 18, FALSE, FALSE) >>)
                \o Opt(InRequirements("csv", requirements)
                         \/ InRequirements("data", requirements),
                       << MkLine("text", 0, <<"pandas==2.1.3">>, 13, FALSE, FALSE) >>))
        deps2 ==
            IF language = "python" /\ deps = <<>>
            THEN << MkLine("comment", 0, <<"# Add your dependencies here">>, 28, FALSE, FALSE) >>
            ELSE deps
    IN  IF deps2 # <<>> THEN deps2 ELSE << MkLine("comment", 0, <<"# No specific dependencies identified">>, 37, FALSE, FALSE) >>

_generate_package_json(requirements, framework) ==
    LET deps ==
            Opt(framework = "express" \/ InRequirements("api", requirements),
                << "express" >>)
            \o Opt(framework = "react", << "react", "react-dom" >>)
        entry(d) ==
            CASE d = "express" -> MkLine("text", 4, <<"\"express\": \"^4.18.2\"">>, 20, FALSE, FALSE)
              [] d = "react" -> MkLine("text", 4, <<"\"react\": \"^18.2.0\"">>, 18, FALSE, FALSE)
              [] d = "react-dom" -> MkLine("text", 4, <<"\"react-dom\": \"^18.2.0\"">>, 22, FALSE, FALSE)
        \* ",\n    ".join(...): every entry but the last ends with a comma
        deps_lines ==
            [i \in 1..Len(deps) |->
                IF i < Len(deps)
                THEN [entry(deps[i]) EXCEPT !.a = @ \o <<",">>, !.len = @ + 1]
                ELSE entry(deps[i])]
    IN  << MkLine("text", 0, <<"{">>, 1, FALSE, FALSE), MkLine("text", 2, <<"\"name\": \"generated-project\",">>, 28, FALSE, FALSE), MkLine("text", 2, <<"\"version\": \"1.0.0\",">>, 19, FALSE, FALSE),
           MkLine("text", 2, <<"\"description\": \"Generated by SimpleAgent\",">>, 42, FALSE, FALSE), MkLine("text", 2, <<"\"main\": \"main.js\",">>, 18, FALSE, FALSE),
           MkLine("text", 2, <<"\"scripts\": {">>, 12, FALSE, FALSE), MkLine("text", 4, <<"\"start\": \"node main.js\"">>, 23, FALSE, FALSE), MkLine("text", 2, <<"},">>, 2, FALSE, FALSE),
           MkLine("text", 2, <<"\"dependencies\": {">>, 17, FALSE, FALSE) >>
        \o (IF deps # <<>> THEN deps_lines ELSE << MkLine("comment", 4, <<"// Add dependencies here">>, 24, FALSE, FALSE) >>)
        \o << MkLine("text", 2, <<"}">>, 1, FALSE, FALSE), MkLine("text", 0, <<"}">>, 1, FALSE, FALSE) >>

_generate_readme(q, requirements, language, framework) ==
    << MkLine("comment", 0, <<"# Generated Project">>, 19, FALSE, FALSE), MkLine("blank", 0, <<>>, 0, FALSE, FALSE), MkLine("comment", 0, <<"## Description">>, 14, FALSE, FALSE),
       MkLine("text", 0, <<"This project was generated by SimpleAgent based on the following request:">>, 73, FALSE, FALSE),
       MkLine("blank", 0, <<>>, 0, FALSE, FALSE), QueryLine(q), MkLine("blank", 0, <<>>, 0, FALSE, FALSE), MkLine("comment", 0, <<"## Requirements Identified">>, 26, FALSE, FALSE) >>
    \o RequirementLines(requirements)
    \o << MkLine("blank", 0, <<>>, 0, FALSE, FALSE), MkLine("comment", 0, <<"## Technology Stack">>, 19, FALSE, FALSE), MkLine("text", 0, <<"- Language: ">> \o <<language>>, 12 + StrLen(language), FALSE, FALSE),
          IF framework # None THEN MkLine("text", 0, <<"- Framework: ">> \o <<framework>>, 13 + StrLen(framework), FALSE, FALSE) ELSE BlankLine,
          MkLine("blank", 0, <<>>, 0, FALSE, FALSE), MkLine("comment", 0, <<"## Setup Instructions">>, 21, FALSE, FALSE), MkLine("blank", 0, <<>>, 0, FALSE, FALSE), MkLine("comment", 0, <<"### Prerequisites">>, 17, FALSE, FALSE),
          MkLine("text", 0, <<"- ">> \o <<Capitalize(language)>> \o <<" installed">>, 12 + StrLen(Capitalize(language)), FALSE, FALSE),
          IF framework # None THEN MkLine("text", 0, <<"- ">> \o <<framework>> \o <<" framework">>, 12 + StrLen(framework), FALSE, FALSE) ELSE BlankLine,
          MkLine("blank", 0, <<>>, 0, FALSE, FALSE), MkLine("comment", 0, <<"### Installation">>, 16, FALSE, FALSE) >>
    \o (IF language = "python"
        THEN << MkLine("text", 0, <<"1. Create a virtual environment (recommended):">>, 46, FALSE, FALSE), MkLine("fence", 3, <<"bash">>, 7, FALSE, FALSE),
                MkLine("text", 3, <<"python -m venv venv">>, 19, FALSE, FALSE),
                MkLine("text", 3, <<"source venv/bin/activate  # On Windows: venv\\Scripts\\activate">>, 61, FALSE, FALSE),
                MkLine("fence", 3, <<>>, 3, FALSE, FALSE), MkLine("blank", 0, <<>>, 0, FALSE, FALSE), MkLine("text", 0, <<"2. Install dependencies:">>, 24, FALSE, FALSE), MkLine("fence", 3, <<"bash">>, 7, FALSE, FALSE),
                MkLine("text", 3, <<"pip install -r requirements.txt">>, 31, FALSE, FALSE), MkLine("fence", 3, <<>>, 3, FALSE, FALSE), MkLine("blank", 0, <<>>, 0, FALSE, FALSE),
                MkLine("text", 0, <<"3. Run the application:">>, 23, FALSE, FALSE), MkLine("fence", 3, <<"bash">>, 7, FALSE, FALSE), MkLine("text", 3, <<"python main.py">>, 14, FALSE, FALSE),
                MkLine("fence", 3, <<>>, 3, FALSE, FALSE) >>
        ELSE IF language \in {"javascript", "typescript"}
        THEN << MkLine("text", 0, <<"1. Install dependencies:">>, 24, FALSE, FALSE), MkLine("fence", 3, <<"bash">>, 7, FALSE, FALSE), MkLine("text", 3, <<"npm install">>, 11, FALSE, FALSE),
                MkLine("fence", 3, <<>>, 3, FALSE, FALSE), MkLine("blank", 0, <<>>, 0, FALSE, FALSE), MkLine("text", 0, <<"2. Run the application:">>, 23, FALSE, FALSE), MkLine("fence", 3, <<"bash">>, 7, FALSE, FALSE),
                MkLine("text", 3, <<"npm start">>, 9, FALSE, FALSE), MkLine("comment", 3, <<"# or">>, 4, FALSE, FALSE), MkLine("text", 3, <<"node main.js">>, 12, FALSE, FALSE), MkLine("fence", 3, <<>>, 3, FALSE, FALSE) >>
        ELSE <<>>)
    \o << MkLine("blank", 0, <<>>, 0, FALSE, FALSE), MkLine("comment", 0, <<"## Implementation Notes">>, 23, FALSE, FALSE),
          MkLine("text", 0, <<"This code was generated based on your query. Please review and customize as needed to fully implement all requirements.">>, 119, FALSE, FALSE),
          MkLine("blank", 0, <<>>, 0, FALSE, FALSE), MkLine("comment", 0, <<"## Next Steps">>, 13, FALSE, FALSE), MkLine("text", 0, <<"1. Review the generated code">>, 28, FALSE, FALSE),
          MkLine("text", 0, <<"2. Implement any missing functionality">>, 38, FALSE, FALSE), MkLine("text", 0, <<"3. Add tests">>, 12, FALSE, FALSE),
          MkLine("text", 0, <<"4. Customize based on your specific needs">>, 41, FALSE, FALSE), MkLine("blank", 0, <<>>, 0, FALSE, FALSE) >>
-----------------------------------------------------------------------------
(* The structure tree *)

\* The nested dict is held flat: a node per key path, marked "file" (the leaf marker)
\* or "dir" (a nested mapping).  ok is FALSE when building it raised TypeError.
EmptyTree == [ok |-> TRUE, nodes |-> {}]

IsPrefix(s, t) == Len(s) <= Len(t) /\ SubSeq(t, 1, Len(s)) = s

\* the loop body of _build_structure_tree for one path
AddPath(tree, parts) ==
    LET dirs == {SubSeq(parts, 1, k) : k \in 1..(Len(parts) - 1)}
        \* current = current[part] has reached the leaf marker, a str: the next
        \* subscript or item assignment on it raises
        blocked == \E d \in dirs : [p |-> d, t |-> "file"] \in tree.nodes
        \* current[parts[-1]] = "file" replaces whatever was under that key
        kept == {n \in tree.nodes : ~IsPrefix(parts, n.p)}
    IN  IF ~tree.ok \/ blocked THEN [ok |-> FALSE, nodes |-> {}]
        ELSE [ok |-> TRUE,
              nodes |-> kept \cup {[p |-> d, t |-> "dir"] : d \in dirs}
                             \cup {[p |-> parts, t |-> "file"]}]

RECURSIVE BuildFrom(_, _, _)
BuildFrom(tree, files, i) ==
    IF i > Len(files) THEN tree
    ELSE BuildFrom(AddPath(tree, PathInfo(files[i].path).parts), files, i + 1)

_build_structure_tree(files) == BuildFrom(EmptyTree, files, 1)

-----------------------------------------------------------------------------
(* _generate_enhanced_fallback *)

\* A codebase result {"files": ..., "structure": ...}; raises is TRUE when building it
\* raised an exception instead of returning
Codebase(files, structure) ==
    [files |-> files, structure |-> structure.nodes, raises |-> ~structure.ok]

\* return {"files": files, "structure": self._build_structure_tree(files)}
CodebaseOf(files) == Codebase(files, _build_structure_tree(files))

\* None passed where a result is expected (existing_result)
NoResult == [files |-> <<>>, structure |-> {}, raises |-> FALSE]

\* the files assembled by _generate_enhanced_fallback, in insertion order
FallbackFiles(q, an, requirements) ==
    LET language == an.language
        framework == an.framework
    IN  (IF language = "python"
         THEN << File("main.py", _generate_python_code(q, requirements, framework)),
                 File("requirements.txt",
                      _generate_dependencies(requirements, language, framework)) >>
         ELSE IF language \in {"javascript", "typescript"}
         THEN LET ext == IF language = "typescript" THEN "ts" ELSE "js"
              IN  << File("main." \o ext,
                          _generate_js_code(q, requirements, framework, ext)),
                     File("package.json",
                          _generate_package_json(requirements, framework)) >>
         ELSE << File("main." \o language,
                      << MkLine("comment", 0, <<"// Generated by SimpleAgent">>, 27, FALSE, FALSE), MkLine("comment", 0, <<"// Query: ">> \o q, 10 + WordsLen(q), FALSE, FALSE),
                         MkLine("comment", 0, <<"// Implement the requested functionality here">>, 45, FALSE, FALSE) >>) >>)
        \o << File("README.md", _generate_readme(q, requirements, language, framework)) >>

\* a synthesizer that keeps the files of the result it was asked to replace
Merged(files, existing) ==
    files \o SelectSeq2(existing, {i \in 1..Len(existing) : ~HasKey(files, existing[i].path)}, 1)

EnhancedFallbackMerging(q, an, existing_result) ==
    CodebaseOf(Merged(FallbackFiles(q, an, _extract_requirements(q)),
                      existing_result.files))

\* existing_result is not read
_generate_enhanced_fallback(q, an, existing_result) ==
    CodebaseOf(FallbackFiles(q, an, _extract_requirements(q)))

-----------------------------------------------------------------------------
(* _generate_comprehensive_readme *)

\* the first key of files, in insertion order, that passes the test named (a field
\* of PathInfo), or None
FirstKey(files, test) ==
    LET hits == {i \in 1..Len(files) : PathInfo(files[i].path)[test]}
    IN  IF hits = {} THEN None
        ELSE files[CHOOSE i \in hits : \A j \in hits : i <= j].path

\* the key that string comparison puts first
LeastKey(keys) ==
    CHOOSE k \in keys : \A other \in keys : PathInfo(k).rank <= PathInfo(other).rank

\* sorted(files.keys())
RECURSIVE SortedKeys(_)
SortedKeys(keys) ==
    IF keys = {} THEN <<>>
    ELSE <<LeastKey(keys)>> \o SortedKeys(keys \ {LeastKey(keys)})

\* for filename in sorted(files.keys())[:10]
ListedFiles == 10

\* sorted(files.keys())[:10]
Listed(sorted) ==
    SubSeq(sorted, 1, IF Len(sorted) < ListedFiles THEN Len(sorted) ELSE ListedFiles)

\* main_file: the first entry point (main.py, app.py, index.js, ...) among the keys,
\* else the first key with a source extension, else None
MainFile(entry_file, files) ==
    IF entry_file # None THEN entry_file ELSE FirstKey(files, "source")

\* the text assembled once main_file and the listed keys are known
ReadmeText(files, language, framework, main_file, listed) ==
    LET is_web_app ==
            \/ \E i \in 1..Len(files) : PathInfo(files[i].path).web
            \/ framework \in {"fastapi", "flask", "express", "react"}
        has_requirements == HasKey(files, "requirements.txt")
        has_package_json == HasKey(files, "package.json")
        run_python(what) ==
            << MkLine("text", 0, <<"Run the ", what, ":">>, 9 + StrLen(what), FALSE, FALSE),
               MkLine("fence", 3, <<"bash">>, 7, FALSE, FALSE), MkLine("text", 3, <<"python ">> \o <<main_file>>, 7 + StrLen(main_file), FALSE, FALSE), MkLine("fence", 3, <<>>, 3, FALSE, FALSE) >>
        run_node(what) ==
            << MkLine("text", 0, <<"Run the ", what, ":">>, 9 + StrLen(what), FALSE, FALSE),
               MkLine("fence", 3, <<"bash">>, 7, FALSE, FALSE), MkLine("text", 3, <<"node ">> \o <<main_file>>, 5 + StrLen(main_file), FALSE, FALSE), MkLine("fence", 3, <<>>, 3, FALSE, FALSE) >>
    IN  << MkLine("comment", 0, <<"# Generated Project">>, 19, FALSE, FALSE), MkLine("blank", 0, <<>>, 0, FALSE, FALSE), MkLine("comment", 0, <<"## Description">>, 14, FALSE, FALSE),
           MkLine("text", 0, <<"This project was generated by SimpleAgent. Please review the code and customize as needed.">>, 90, FALSE, FALSE),
           MkLine("blank", 0, <<>>, 0, FALSE, FALSE), MkLine("comment", 0, <<"## Technology Stack">>, 19, FALSE, FALSE), MkLine("text", 0, <<"- Language: ">> \o <<language>>, 12 + StrLen(language), FALSE, FALSE),
           IF framework # None THEN MkLine("text", 0, <<"- Framework: ">> \o <<framework>>, 13 + StrLen(framework), FALSE, FALSE) ELSE BlankLine,
           MkLine("blank", 0, <<>>, 0, FALSE, FALSE), MkLine("comment", 0, <<"## Prerequisites">>, 16, FALSE, FALSE) >>
        \o (IF language = "python"
            THEN << MkLine("text", 0, <<"- Python 3.8 or higher">>, 22, FALSE, FALSE), MkLine("text", 0, <<"- pip (Python package manager)">>, 30, FALSE, FALSE) >>
                 \o Opt(framework # None, << MkLine("text", 0, <<"- ">> \o <<framework>> \o <<" framework">>, 12 + StrLen(framework), FALSE, FALSE) >>)
            ELSE IF language \in {"javascript", "typescript"}
            THEN << MkLine("text", 0, <<"- Node.js 14.x or higher">>, 24, FALSE, FALSE), MkLine("text", 0, <<"- npm (Node Package Manager)">>, 28, FALSE, FALSE) >>
                 \o Opt(framework # None, << MkLine("text", 0, <<"- ">> \o <<framework>> \o <<" framework">>, 12 + StrLen(framework), FALSE, FALSE) >>)
            ELSE <<>>)
        \o << MkLine("blank", 0, <<>>, 0, FALSE, FALSE), MkLine("comment", 0, <<"## Installation">>, 15, FALSE, FALSE), MkLine("blank", 0, <<>>, 0, FALSE, FALSE) >>
        \o (IF language = "python"
            THEN << MkLine("text", 0, <<"1. Create a virtual environment (recommended):">>, 46, FALSE, FALSE), MkLine("fence", 3, <<"bash">>, 7, FALSE, FALSE),
                    MkLine("text", 3, <<"python -m venv venv">>, 19, FALSE, FALSE), MkLine("blank", 3, <<>>, 0, FALSE, FALSE), MkLine("comment", 3, <<"# On Windows:">>, 13, FALSE, FALSE),
                    MkLine("text", 3, <<"venv\\Scripts\\activate">>, 21, FALSE, FALSE), MkLine("blank", 3, <<>>, 0, FALSE, FALSE), MkLine("comment", 3, <<"# On macOS/Linux:">>, 17, FALSE, FALSE),
                    MkLine("text", 3, <<"source venv/bin/activate">>, 24, FALSE, FALSE), MkLine("fence", 3, <<>>, 3, FALSE, FALSE), MkLine("blank", 0, <<>>, 0, FALSE, FALSE),
                    MkLine("text", 0, <<"2. Install dependencies:">>, 24, FALSE, FALSE), MkLine("fence", 3, <<"bash">>, 7, FALSE, FALSE),
                    MkLine("text", 3, <<"pip install -r requirements.txt">>, 31, FALSE, FALSE), MkLine("fence", 3, <<>>, 3, FALSE, FALSE) >>
            ELSE IF language \in {"javascript", "typescript"}
            THEN << MkLine("text", 0, <<"1. Install dependencies:">>, 24, FALSE, FALSE), MkLine("fence", 3, <<"bash">>, 7, FALSE, FALSE), MkLine("text", 3, <<"npm install">>, 11, FALSE, FALSE),
                    MkLine("fence", 3, <<>>, 3, FALSE, FALSE) >>
            ELSE <<>>)
        \o << MkLine("blank", 0, <<>>, 0, FALSE, FALSE), MkLine("comment", 0, <<"## How to Run">>, 13, FALSE, FALSE), MkLine("blank", 0, <<>>, 0, FALSE, FALSE) >>
        \o (IF is_web_app
            THEN IF framework = "fastapi"
                 THEN << MkLine("text", 0, <<"Run the FastAPI application:">>, 28, FALSE, FALSE), MkLine("fence", 3, <<"bash">>, 7, FALSE, FALSE),
                         MkLine("text", 3, <<"uvicorn main:app --reload">>, 25, FALSE, FALSE), MkLine("fence", 3, <<>>, 3, FALSE, FALSE), MkLine("blank", 3, <<>>, 0, FALSE, FALSE),
                         MkLine("text", 3, <<"Or if using app.py:">>, 19, FALSE, FALSE), MkLine("fence", 3, <<"bash">>, 7, FALSE, FALSE),
                         MkLine("text", 3, <<"uvicorn app:app --reload">>, 24, FALSE, FALSE), MkLine("fence", 3, <<>>, 3, FALSE, FALSE), MkLine("blank", 3, <<>>, 0, FALSE, FALSE),
                         MkLine("text", 3, <<"The application will be available at: http://localhost:8000">>, 59, FALSE, FALSE) >>
                 ELSE IF framework = "flask"
                 THEN << MkLine("text", 0, <<"Run the Flask application:">>, 26, FALSE, FALSE), MkLine("fence", 3, <<"bash">>, 7, FALSE, FALSE),
                         MkLine("text", 3, <<"python ">> \o <<IF main_file # None THEN main_file ELSE "app.py">>, 7 + StrLen(IF main_file # None THEN main_file ELSE "app.py"), FALSE, FALSE),
                         MkLine("fence", 3, <<>>, 3, FALSE, FALSE), MkLine("blank", 3, <<>>, 0, FALSE, FALSE),
                         MkLine("text", 3, <<"The application will be available at: http://localhost:5000">>, 59, FALSE, FALSE) >>
                 ELSE IF framework = "express"
                 THEN << MkLine("text", 0, <<"Run the Express server:">>, 23, FALSE, FALSE), MkLine("fence", 3, <<"bash">>, 7, FALSE, FALSE), MkLine("text", 3, <<"npm start">>, 9, FALSE, FALSE),
                         MkLine("fence", 3, <<>>, 3, FALSE, FALSE), MkLine("blank", 3, <<>>, 0, FALSE, FALSE), MkLine("text", 3, <<"Or:">>, 3, FALSE, FALSE), MkLine("fence", 3, <<"bash">>, 7, FALSE, FALSE),
                         MkLine("text", 3, <<"node main.js">>, 12, FALSE, FALSE), MkLine("fence", 3, <<>>, 3, FALSE, FALSE), MkLine("blank", 3, <<>>, 0, FALSE, FALSE),
                         MkLine("text", 3, <<"The server will be available at: http://localhost:3000">>, 54, FALSE, FALSE) >>
                 ELSE IF main_file # None
                 THEN IF language = "python" THEN run_python("application")
                      ELSE run_node("application")
                 ELSE <<>>
            ELSE IF main_file # None
                 THEN IF language = "python" THEN run_python("script")
                      ELSE run_node("script")
                 ELSE << MkLine("text", 0, <<"Run the main file:">>, 18, FALSE, FALSE), MkLine("fence", 3, <<"bash">>, 7, FALSE, FALSE), MkLine("text", 3, <<"python main.py">>, 14, FALSE, FALSE),
                         MkLine("fence", 3, <<>>, 3, FALSE, FALSE), MkLine("text", 3, <<"(Adjust the command based on your main entry point)">>, 51, FALSE, FALSE) >>)
        \o << MkLine("blank", 0, <<>>, 0, FALSE, FALSE), MkLine("comment", 0, <<"## Project Structure">>, 20, FALSE, FALSE), MkLine("blank", 0, <<>>, 0, FALSE, FALSE), MkLine("text", 0, <<"Key files in this project:">>, 26, FALSE, FALSE), MkLine("blank", 0, <<>>, 0, FALSE, FALSE) >>
        \o [i \in 1..Len(listed) |-> MkLine("text", 0, <<"- '">> \o <<listed[i]>> \o <<"'">>, 4 + StrLen(listed[i]), FALSE, FALSE)]
        \o << MkLine("blank", 0, <<>>, 0, FALSE, FALSE), MkLine("comment", 0, <<"## Usage">>, 8, FALSE, FALSE), MkLine("blank", 0, <<>>, 0, FALSE, FALSE),
              MkLine("text", 0, <<"Please refer to the code comments and implementation for usage details.">>, 71, FALSE, FALSE),
              MkLine("blank", 0, <<>>, 0, FALSE, FALSE), MkLine("comment", 0, <<"## Notes">>, 8, FALSE, FALSE), MkLine("blank", 0, <<>>, 0, FALSE, FALSE),
              MkLine("text", 0, <<"- This code was automatically generated. Please review and test before production use.">>, 86, FALSE, FALSE),
              MkLine("text", 0, <<"- Make sure all dependencies are installed before running.">>, 58, FALSE, FALSE) >>
        \o (IF ~has_requirements /\ ~has_package_json
            THEN << MkLine("text", 0, <<"- **Important**: Dependencies file may be missing. Please check and add required packages.">>, 90, FALSE, FALSE),
                    MkLine("blank", 0, <<>>, 0, FALSE, FALSE) >>
            ELSE << MkLine("blank", 0, <<>>, 0, FALSE, FALSE) >>)

_generate_comprehensive_readme(files, language, framework, an) ==
    ReadmeText(files, language, framework, MainFile(FirstKey(files, "entry"), files),
               Listed(SortedKeys(Range(Keys(files)))))
-----------------------------------------------------------------------------
(* The response parser: the primary scan *)

MarkerLine(path) == MkLine("marker", 0, <<path>>, 6 + StrLen(path), FALSE, FALSE)

FenceLine(tag) ==
    MkLine("fence", 0, IF tag = "" THEN <<>> ELSE <<tag>>, 3 + StrLen(tag), FALSE, FALSE)

\* line.strip()[3:].strip()
FenceTag(line) == IF line.a = <<>> THEN "" ELSE line.a[1]

\* line.replace('FILE:', '').strip()
MarkerPath(line) == line.a[1]

\* the truth value of current_file: None and the empty path are false
IsSet(current_file) == current_file # None /\ current_file # ""

\* ext_map of the primary scan, .get(tag.lower(), 'txt')
ExtOfTag(tag) ==
    LET t == LowerTag(tag)
    IN  CASE t \in {"python", "py"} -> "py"
          [] t \in {"javascript", "js"} -> "js"
          [] t \in {"typescript", "ts"} -> "ts"
          [] t = "html" -> "html"
          [] t = "css" -> "css"
          [] t = "json" -> "json"
          [] t \in {"yaml", "yml"} -> "yml"
          [] t \in {"markdown", "md"} -> "md"
          [] OTHER -> "txt"

\* ext_map of _parse_alternative_format
AltExtOfTag(tag) ==
    LET t == LowerTag(tag)
    IN  CASE t \in {"python", "py"} -> "py"
          [] t \in {"javascript", "js"} -> "js"
          [] t \in {"typescript", "ts"} -> "ts"
          [] t = "html" -> "html"
          [] t = "css" -> "css"
          [] t = "json" -> "json"
          [] OTHER -> "txt"

\* the ParseState before the first line
InitialScan ==
    [files |-> <<>>, current_file |-> None, current_content |-> <<>>,
     in_code_block |-> FALSE, code_block_lang |-> None]

\* the locals of _parse_codebase_response before the first line: i counts the lines
\* read
StartOfScan ==
    [files |-> <<>>, current_file |-> None, current_content |-> <<>>,
     in_code_block |-> FALSE, code_block_lang |-> None, i |-> 0]

\* files[current_file] = '\n'.join(current_content).strip()
Commit(st) == Put(st.files, st.current_file, StripContent(st.current_content))

\* the name given to a fenced block read while no target is set
InferredName(st, tag) ==
    IF TagHasMain(tag) \/ ~IsSet(st.current_file)
    THEN "main." \o ExtOfTag(tag)
    ELSE "file." \o ExtOfTag(tag)

\* a FILE: marker line
OnMarker(st, line) ==
    [st EXCEPT !.files = IF IsSet(st.current_file) THEN Commit(st) ELSE @,
               !.current_file = MarkerPath(line),
               !.current_content = <<>>,
               !.in_code_block = FALSE]

\* a fence read outside a block
OnOpeningFence(st, line) ==
    LET tag == FenceTag(line)
        opened == [st EXCEPT !.in_code_block = TRUE, !.code_block_lang = tag]
    IN  IF IsSet(st.current_file) /\ st.current_content = <<>> THEN opened
        ELSE IF ~IsSet(st.current_file)
        THEN IF tag # "" THEN [opened EXCEPT !.current_file = InferredName(st, tag)]
             ELSE opened
        ELSE opened

\* a closing fence that clears the target and leaves its buffer
ClosingFenceKeepingBuffer(st, line) ==
    IF IsSet(st.current_file)
    THEN [st EXCEPT !.in_code_block = FALSE,
                    !.files = IF st.current_content # <<>> THEN Commit(st) ELSE @,
                    !.current_file = None]
    ELSE [st EXCEPT !.in_code_block = FALSE]

\* a fence read inside a block
OnClosingFence(st, line) ==
    IF IsSet(st.current_file)
    THEN [st EXCEPT !.in_code_block = FALSE,
                    !.files = IF st.current_content # <<>> THEN Commit(st) ELSE @,
                    !.current_file = None,
                    !.current_content = <<>>]
    ELSE [st EXCEPT !.in_code_block = FALSE]

\* a non-blank line read outside a block while no target is set
OnLooseProse(st, line) ==
    IF ~\E i \in 1..Len(st.files) : PathInfo(st.files[i].path).doc
    THEN IF ~HasKey(st.files, "README.md")
         THEN [st EXCEPT !.files = Put(@, "README.md", <<line>>)]
         ELSE [st EXCEPT !.files = Put(@, "README.md", Append(Get(@, "README.md"), line))]
    ELSE st

\* the body of the while loop for one line
ScanStep(st, line) ==
    IF line.k = "marker" THEN OnMarker(st, line)
    ELSE IF line.k = "fence"
    THEN IF ~st.in_code_block THEN OnOpeningFence(st, line) ELSE OnClosingFence(st, line)
    ELSE IF IsSet(st.current_file)
    THEN [st EXCEPT !.current_content = Append(@, line)]
    ELSE IF ~IsBlank(line) /\ ~st.in_code_block THEN OnLooseProse(st, line)
    ELSE st

RECURSIVE ScanFrom(_, _, _)
ScanFrom(st, lines, i) ==
    IF i > Len(lines) THEN st ELSE ScanFrom(ScanStep(st, lines[i]), lines, i + 1)

\* a scanner without the commit that follows the loop
SkipLast(st) == st

\* "Save last file if exists"
CommitLast(st) ==
    IF IsSet(st.current_file) /\ st.current_content # <<>>
    THEN [st EXCEPT !.files = Commit(st)]
    ELSE st

\* the files after the while loop and the last commit
PrimaryScan(lines) == CommitLast(ScanFrom(InitialScan, lines, 1)).files

-----------------------------------------------------------------------------
(* The response parser: _parse_alternative_format *)

FenceIndexes(lines) == {i \in 1..Len(lines) : lines[i].k = "fence"}

\* the first fence line after line i, or 0
NextFence(lines, i) ==
    LET later == {j \in FenceIndexes(lines) : j > i}
    IN  IF later = {} THEN 0 ELSE CHOOSE j \in later : \A k \in later : j <= k

\* ```(\w+)?\n can match at fence line j: the tag is absent or made of word
\* characters, and a line follows
CanOpen(lines, j) ==
    /\ j < Len(lines)
    /\ FenceTag(lines[j]) = "" \/ IsWordTag(FenceTag(lines[j]))

RECURSIVE CodeBlocks(_, _)
\* re.findall(r'```(\w+)?\n(.*?)```', content, re.DOTALL), searching after line i:
\* the (lang, code) pairs, code given as the lines between the two fences
CodeBlocks(lines, i) ==
    LET j == NextFence(lines, i)
    IN  IF j = 0 THEN <<>>
        ELSE LET m == NextFence(lines, j)
             IN  IF m = 0 THEN <<>>
                 ELSE IF CanOpen(lines, j)
                 THEN << [lang |-> FenceTag(lines[j]), code |-> SubSeq(lines, j + 1, m - 1)] >>
                      \o CodeBlocks(lines, m)
                 ELSE CodeBlocks(lines, j)

\* what is left of a fence line after its backticks
AfterBackticks(line) ==
    IF FenceTag(line) = "" THEN <<>>
    ELSE << MkLine("text", 0, <<FenceTag(line)>>, StrLen(FenceTag(line)), FALSE, FALSE) >>

RECURSIVE TextParts(_, _, _)
\* re.split(r'```.*?```', content, flags=re.DOTALL): the text outside the pairs of
\* fences, one sequence of lines per part; lead is the text that follows the
\* backticks of the fence that closed the previous pair, i the line it is on
TextParts(lines, lead, i) ==
    LET j == NextFence(lines, i)
        m == IF j = 0 THEN 0 ELSE NextFence(lines, j)
    IN  IF m = 0 THEN << lead \o SubSeq(lines, i + 1, Len(lines)) >>
        ELSE << lead \o SubSeq(lines, i + 1, j - 1) >>
             \o TextParts(lines, AfterBackticks(lines[m]), m)

RECURSIVE JoinParts(_)
\* '\n\n'.join(parts)
JoinParts(parts) ==
    IF parts = <<>> THEN <<>>
    ELSE IF Len(parts) = 1 THEN parts[1]
    ELSE parts[1] \o <<BlankLine>> \o JoinParts(Tail(parts))

\* len(readme_text) > 50
MinReadmeLen == 50

AltName(i, ext) ==
    CASE i = 0 -> "main." \o ext
      [] i = 1 -> "file_1." \o ext
      [] i = 2 -> "file_2." \o ext
      [] i = 3 -> "file_3." \o ext

RECURSIVE PutBlocks(_, _, _, _)
PutBlocks(files, blocks, i, language) ==
    IF i > Len(blocks) THEN files
    ELSE LET lang == IF blocks[i].lang # "" THEN blocks[i].lang ELSE language
         IN  PutBlocks(Put(files, AltName(i - 1, AltExtOfTag(lang)),
                           StripContent(blocks[i].code)),
                       blocks, i + 1, language)

_parse_alternative_format(lines, an) ==
    LET code_files == PutBlocks(<<>>, CodeBlocks(lines, 0), 1, an.language)
        text_parts == TextParts(lines, <<>>, 0)
        stripped == [i \in 1..Len(text_parts) |-> StripContent(text_parts[i])]
        kept == {i \in 1..Len(stripped) :
                    stripped[i] # <<>> /\ stripped[i][1].k # "marker"}
        readme_text == JoinParts(SelectSeq2(stripped, kept, 1))
    IN  IF readme_text # <<>> /\ ContentLen(readme_text) > MinReadmeLen
        THEN Put(code_files, "README.md", readme_text)
        ELSE code_files

-----------------------------------------------------------------------------
(* The response parser: _parse_codebase_response *)

ReadmeExists(files) == \E i \in 1..Len(files) : PathInfo(files[i].path).readme

\* "if not files: files = self._parse_alternative_format(response, analysis)"
OrAlternative(files, lines, an) ==
    IF files = <<>> THEN _parse_alternative_format(lines, an) ELSE files

\* a repair that looks for the key README.md only
WithReadmeExactKey(files, an) ==
    IF ~HasKey(files, "README.md")
    THEN Put(files, "README.md",
             _generate_comprehensive_readme(files, an.language, an.framework, an))
    ELSE files

\* "if not readme_exists: files['README.md'] = ..."
WithReadme(files, an) ==
    IF ~ReadmeExists(files)
    THEN Put(files, "README.md",
             _generate_comprehensive_readme(files, an.language, an.framework, an))
    ELSE files

\* a parser that adds its README to an empty extraction as well
ParsedResultAlwaysReadme(files, an) == CodebaseOf(WithReadme(files, an))

\* the two returns of the parser: the empty result, or the files with a README
ParsedResult(files, an) ==
    IF files = <<>> THEN Codebase(<<>>, EmptyTree) ELSE CodebaseOf(WithReadme(files, an))

ParsedResultWithoutReadme(files) ==
    IF files = <<>> THEN Codebase(<<>>, EmptyTree) ELSE CodebaseOf(files)

ParseWithoutReadme(lines, an) ==
    ParsedResultWithoutReadme(OrAlternative(PrimaryScan(lines), lines, an))

_parse_codebase_response(lines, an) ==
    ParsedResult(OrAlternative(PrimaryScan(lines), lines, an), an)
-----------------------------------------------------------------------------
(* Provider adapters *)

\* What a provider call can produce: "ok" (a reply whose text is lines), "none"
\* (a reply object whose text is None, so that handling it raises TypeError),
\* "raise" (the client raised: network, authentication), "noshape" (Gemini: a
\* response with neither .text nor candidates, so that the adapter raises ValueError)
Outcome(kind, lines) == [kind |-> kind, lines |-> lines]

ErrorMessage(outcome) ==
    CASE outcome.kind = "raise" -> "Connection error."
      [] outcome.kind = "none" -> "'NoneType' object is not subscriptable"
      [] outcome.kind = "noshape" -> "Unable to extract text from Gemini response"
      [] OTHER -> "'str' object does not support item assignment"

\* what an adapter returns: the parsed or synthesized codebase (files, structure) or
\* {"content": text}; steps lists the parser and synthesizer runs made on the way;
\* raises is TRUE when an exception left the adapter instead
AdapterResult(files, structure, content, steps, raises) ==
    [files |-> files, structure |-> structure, content |-> content,
     steps |-> steps, raises |-> raises]

\* an adapter returning the codebase cb (parsed or synthesized) after the given steps
OfCodebase(cb, steps) == AdapterResult(cb.files, cb.structure, <<>>, steps, cb.raises)

\* the try block of an adapter: the call, the extraction of the text and, for a
\* code request, the parse
TryBlock(q, an, cb, outcome) ==
    IF outcome.kind # "ok"
    THEN AdapterResult(<<>>, {}, <<>>, <<>>, TRUE)
    ELSE IF cb
    THEN OfCodebase(_parse_codebase_response(outcome.lines, an), <<"parse">>)
    ELSE AdapterResult(<<>>, {}, outcome.lines, <<>>, FALSE)

ErrorText(outcome) ==
    << MkLine("text", 0, <<"Error generating response: ", ErrorMessage(outcome)>>,
              27 + StrLen(ErrorMessage(outcome)), FALSE, FALSE) >>

\* the except clause of an adapter
ExceptBlock(q, an, cb, outcome, tried) ==
    IF cb
    THEN OfCodebase(_generate_enhanced_fallback(q, an, NoResult),
                    tried.steps \o <<"synthesize">>)
    ELSE AdapterResult(<<>>, {}, ErrorText(outcome), tried.steps, FALSE)

\* an except clause that lets through what is not an error of the call itself
ExceptCallErrors(q, an, cb, outcome, tried) ==
    IF tried.raises /\ outcome.kind = "raise"
    THEN ExceptBlock(q, an, cb, outcome, tried)
    ELSE tried

AdapterPropagating(q, an, cb, outcome) ==
    ExceptCallErrors(q, an, cb, outcome, TryBlock(q, an, cb, outcome))

\* except Exception as e: every exception raised in the try block is handled
ExceptException(q, an, cb, outcome, tried) ==
    IF tried.raises THEN ExceptBlock(q, an, cb, outcome, tried) ELSE tried

\* try: ... except Exception as e: ...
Adapter(q, an, cb, outcome) ==
    ExceptException(q, an, cb, outcome, TryBlock(q, an, cb, outcome))

_generate_with_openai(q, an, cb, outcome) == Adapter(q, an, cb, outcome)

_generate_with_anthropic(q, an, cb, outcome) == Adapter(q, an, cb, outcome)

\* a Gemini adapter whose extraction of the text is outside its try block
GeminiExtractingOutside(q, an, cb, outcome) ==
    IF outcome.kind = "noshape" THEN AdapterResult(<<>>, {}, <<>>, <<>>, TRUE)
    ELSE Adapter(q, an, cb, outcome)

_generate_with_gemini(q, an, cb, outcome) == Adapter(q, an, cb, outcome)

\* the outcomes of a call to a provider
OutcomesOf(provider, replies) ==
    {Outcome("ok", r) : r \in replies}
    \cup {Outcome("raise", <<>>), Outcome("none", <<>>)}
    \cup (IF provider = "gemini" THEN {Outcome("noshape", <<>>)} ELSE {})

-----------------------------------------------------------------------------
(* The agent *)

\* settings.X or os.getenv("X")
KeyOf(cfg, env) == IF cfg # None /\ cfg # "" THEN cfg ELSE env

\* bool(key)
Present(key) == key # None /\ key # ""

NewAgentAllPresent(s, e) ==
    LET openai_api_key == KeyOf(s.OPENAI_API_KEY, e.OPENAI_API_KEY)
        anthropic_api_key == KeyOf(s.ANTHROPIC_API_KEY, e.ANTHROPIC_API_KEY)
        google_api_key == KeyOf(s.GOOGLE_API_KEY, e.GOOGLE_API_KEY)
    IN  [use_openai |-> Present(openai_api_key),
         use_anthropic |-> Present(anthropic_api_key),
         use_gemini |-> Present(google_api_key)]

\* SimpleAgent.__init__
NewAgent(s, e) ==
    LET openai_api_key == KeyOf(s.OPENAI_API_KEY, e.OPENAI_API_KEY)
        anthropic_api_key == KeyOf(s.ANTHROPIC_API_KEY, e.ANTHROPIC_API_KEY)
        google_api_key == KeyOf(s.GOOGLE_API_KEY, e.GOOGLE_API_KEY)
        use_openai == Present(openai_api_key)
        use_anthropic == Present(anthropic_api_key) /\ ~use_openai
        use_gemini == Present(google_api_key) /\ ~use_openai /\ ~use_anthropic
    IN  [use_openai |-> use_openai, use_anthropic |-> use_anthropic,
         use_gemini |-> use_gemini]

\* a dispatch that falls through to the last provider
DispatchedDefault(ag) ==
    IF ag.use_openai THEN "openai"
    ELSE IF ag.use_anthropic THEN "anthropic"
    ELSE "gemini"

\* the branch taken by the if/elif chain of _generate_codebase and
\* _generate_text_response: the provider called, or None
Dispatched(ag) ==
    IF ag.use_openai THEN "openai"
    ELSE IF ag.use_anthropic THEN "anthropic"
    ELSE IF ag.use_gemini THEN "gemini"
    ELSE None

CallAdapter(provider, q, an, cb, outcome) ==
    CASE provider = "openai" -> _generate_with_openai(q, an, cb, outcome)
      [] provider = "anthropic" -> _generate_with_anthropic(q, an, cb, outcome)
      [] provider = "gemini" -> _generate_with_gemini(q, an, cb, outcome)

\* "if not result.get("files") or self._is_fallback_code(result)"
NeedsFallback(res) == res.files = <<>> \/ _is_fallback_code(res)

\* a check that replaces every result the adapter returned
CheckedAlways(res, q, an) ==
    IF ~res.raises
    THEN OfCodebase(_generate_enhanced_fallback(q, an, res), res.steps \o <<"synthesize">>)
    ELSE res

\* "if not result.get("files") or self._is_fallback_code(result): return
\* self._generate_enhanced_fallback(query, analysis, result)", else "return result"
Checked(res, q, an) ==
    IF ~res.raises /\ NeedsFallback(res)
    THEN OfCodebase(_generate_enhanced_fallback(q, an, res), res.steps \o <<"synthesize">>)
    ELSE res

\* _generate_codebase, from the return of the provider call on (outcome is not read
\* when no provider is dispatched)
_generate_codebase(provider, q, an, outcome) ==
    IF provider = None
    THEN OfCodebase(_generate_enhanced_fallback(q, an, NoResult), <<"synthesize">>)
    ELSE Checked(CallAdapter(provider, q, an, TRUE, outcome), q, an)

LocalText(q) ==
    << MkLine("text", 0, <<"Response to query: ">> \o q, 19 + WordsLen(q), FALSE, FALSE), MkLine("blank", 0, <<>>, 0, FALSE, FALSE),
       MkLine("text", 0, <<"This query is better suited for an informational response rather than code generation.">>, 86, FALSE, FALSE) >>

\* a text generation that calls the adapter as for a code request
GenerateTextAsCode(provider, q, an, outcome) ==
    IF provider = None
    THEN AdapterResult(<<>>, {}, LocalText(q), <<>>, FALSE)
    ELSE CallAdapter(provider, q, an, TRUE, outcome)

\* _generate_text_response, from the return of the provider call on
_generate_text_response(provider, q, an, outcome) ==
    IF provider = None
    THEN AdapterResult(<<>>, {}, LocalText(q), <<>>, FALSE)
    ELSE CallAdapter(provider, q, an, FALSE, outcome)

WantsCodeIgnoringSetting(an, s) == an.should_generate_code

\* analysis["should_generate_code"] and settings.ENABLE_CODE_GENERATION
WantsCode(an, s) == an.should_generate_code /\ s.ENABLE_CODE_GENERATION

\* the dict returned by process_query
CodebaseResponse(res, an) ==
    [type |-> "codebase",
     content |-> [files |-> res.files, structure |-> res.structure],
     metadata |-> [language |-> an.language, framework |-> an.framework,
                   structure |-> res.structure]]

TextResponse(res, an) ==
    [type |-> "text", content |-> res.content, metadata |-> [reason |-> an.reason]]

NoResponse == [type |-> "none"]

\* process_query, from the return of the provider call on
Respond(cb, provider, q, an, outcome) ==
    IF cb THEN _generate_codebase(provider, q, an, outcome)
    ELSE _generate_text_response(provider, q, an, outcome)

Response(cb, res, an) ==
    IF res.raises THEN NoResponse
    ELSE IF cb THEN CodebaseResponse(res, an) ELSE TextResponse(res, an)
-----------------------------------------------------------------------------
(* Inputs of the model *)

\* the queries submitted to process_query
Queries ==
    { <<"Create", "a", "REST", "API", "with", "FastAPI", "that", "handles", "user",
        "authentication">>,
      <<"Explain", "what", "is", "a", "binary", "search", "tree">>,
      <<"build", "a", "todo", "app", "in", "Go">>,
      <<"build", "a", "React", "app">>,
      <<"Explain", "the", "concept", "of", "a", "web", "app">>,
      <<>> }

\* a (settings value, environment value) pair of one API key: absent, set in the
\* settings, or empty in the settings and set in the environment
KeyPairs == { <<None, None>>, <<"sk-settings", None>>, <<"", "sk-environ">> }

\* pieces of provider replies
SegModule == <<MarkerLine("main.py")>> \o Rep(CodeLine, ModuleLines)
SegReadme == <<MarkerLine("README.md"), ProseLine>>
SegHello == <<FenceLine("python"), HelloLine, FenceLine("")>>
SegProse == <<ProseLine>>
SegBare == <<FenceLine(""), DefLine, Indent(CodeLine, 4), FenceLine("")>>
SegNested == <<MarkerLine("a"), CodeLine, MarkerLine("a/b"), CodeLine>>
SegDocs == <<MarkerLine("docs/readme.md")>> \o Rep(PlaceholderProse, DocLines)
SegStub == <<MarkerLine("app.py"), HelloLine>>

Segments ==
    <<SegModule, SegReadme, SegHello, SegProse, SegBare, SegNested, SegDocs, SegStub>>

RECURSIVE Flatten(_)
Flatten(ss) == IF ss = <<>> THEN <<>> ELSE Head(ss) \o Flatten(Tail(ss))

\* the texts a provider may reply with: up to MaxSegs pieces, in any order
Replies ==
    {Flatten([i \in 1..Len(s) |-> Segments[s[i]]]) :
        s \in SeqsUpTo(1..Len(Segments), MaxSegs)}

\* the lines the inputs of the quality gate are made of
GateLines == {BlankLine, CodeLine, HelloLine, DefLine, CommentLine, PlaceholderProse}

\* the results judged by the quality gate: main.py made of two runs of lines, alone
\* or with a README.md
GateInputs ==
    LET mains == {Rep(l1, n1) \o Rep(l2, n2) :
                    l1 \in GateLines, l2 \in GateLines, n1 \in 0..MaxRun, n2 \in 0..MaxRun}
        readmes == {Rep(l, n) : l \in {ProseLine, PlaceholderProse}, n \in {1, MinDeclLines}}
    IN  {<<>>}
        \cup {<< File("main.py", m) >> : m \in mains}
        \cup {<< File("main.py", m), File("README.md", r) >> : m \in mains, r \in readmes}

-----------------------------------------------------------------------------
(* The request pipeline: main.process_query and SimpleAgent.process_query *)

NoAgent == [use_openai |-> FALSE, use_anthropic |-> FALSE, use_gemini |-> FALSE]
NoAnalysis == _analyze_query(<<>>)
NoOutcome == Outcome("unset", <<>>)

\* the locals of a handler that has not started
NewTask ==
    [pc |-> "new", query |-> <<>>, analysis |-> NoAnalysis, codebase |-> FALSE,
     provider |-> None, hangs |-> FALSE, result |-> NoResponse, timestamp |-> 0,
     output_path |-> [kind |-> "none", stamp |-> 0]]

Requests == 1..NumRequests

\* the values of timestamp
Stamps == 0..MaxClock

Missing == [exists |-> FALSE, entries |-> {}]

\* the outputs directory as created by OutputManager.__init__; outside holds what
\* was written to places that are not under a temporary directory
EmptyDisk ==
    [dirs |-> [t \in Stamps |-> Missing], zips |-> [t \in Stamps |-> Missing],
     texts |-> [t \in Stamps |-> Missing], outside |-> {}]

\* no request has reached the server
ServerIdle ==
    /\ tasks = [r \in Requests |-> NewTask]
    /\ running = 0
    /\ clock = 0
    /\ disk = EmptyDisk

Init ==
    /\ ServerIdle
    /\ scan = StartOfScan
    /\ \E o \in KeyPairs, a \in KeyPairs, g \in KeyPairs, enable \in BOOLEAN :
          /\ settings = [OPENAI_API_KEY |-> o[1], ANTHROPIC_API_KEY |-> a[1],
                         GOOGLE_API_KEY |-> g[1], ENABLE_CODE_GENERATION |-> enable]
          /\ environ = [OPENAI_API_KEY |-> o[2], ANTHROPIC_API_KEY |-> a[2],
                        GOOGLE_API_KEY |-> g[2]]
    /\ agent = NoAgent
    /\ pc = "start"
    /\ query = <<>>
    /\ analysis = NoAnalysis
    /\ codebase = FALSE
    /\ called = <<>>
    /\ reply = NoOutcome
    /\ result = NoResponse
    /\ trace = <<>>
    /\ raised = FALSE
    /\ verdict = FALSE

\* analysis = self._analyze_query(query) and the test of line 42
Analysed(an) ==
    /\ analysis' = an
    /\ codebase' = WantsCode(an, settings)

\* process_query returns the response built from res, or the exception leaves it
Returns(res, cb, an, steps) ==
    /\ result' = Response(cb, res, an)
    /\ raised' = res.raises
    /\ trace' = steps \o res.steps

\* agent = SimpleAgent()
Construct ==
    /\ pc = "start"
    /\ agent' = NewAgent(settings, environ)
    /\ pc' = "ready"
    /\ UNCHANGED serverVars
    /\ UNCHANGED scan
    /\ UNCHANGED <<settings, environ, query, analysis, codebase, called, reply, result,
                   trace, raised, verdict>>

\* process_query up to the call of the active provider
Dispatch ==
    /\ pc = "ready"
    /\ Dispatched(agent) # None
    /\ \E q \in Queries :
          /\ query' = q
          /\ Analysed(_analyze_query(q))
    /\ called' = <<Dispatched(agent)>>
    /\ trace' = <<"classify", "provider">>
    /\ pc' = "calling"
    /\ UNCHANGED serverVars
    /\ UNCHANGED scan
    /\ UNCHANGED <<settings, environ, agent, reply, result, raised, verdict>>

\* process_query when no provider is active
AnswerLocally ==
    /\ pc = "ready"
    /\ Dispatched(agent) = None
    /\ \E q \in Queries :
          /\ query' = q
          /\ Analysed(_analyze_query(q))
          /\ Returns(Respond(codebase', None, q, analysis', NoOutcome), codebase',
                     analysis', <<"classify">>)
    /\ called' = <<>>
    /\ pc' = "done"
    /\ UNCHANGED serverVars
    /\ UNCHANGED scan
    /\ UNCHANGED <<settings, environ, agent, reply, verdict>>

\* the provider call ends and process_query runs to its return
ProviderReturns ==
    /\ pc = "calling"
    /\ \E o \in OutcomesOf(called[1], Replies) :
          /\ reply' = o
          /\ Returns(Respond(codebase, called[1], query, analysis, o), codebase,
                     analysis, trace)
    /\ pc' = "done"
    /\ UNCHANGED serverVars
    /\ UNCHANGED scan
    /\ UNCHANGED <<settings, environ, agent, query, analysis, codebase, called, verdict>>

\* the same agent is given another query
NextRequest ==
    /\ pc = "done"
    /\ pc' = "ready"
    /\ query' = <<>>
    /\ analysis' = NoAnalysis
    /\ codebase' = FALSE
    /\ called' = <<>>
    /\ reply' = NoOutcome
    /\ result' = NoResponse
    /\ trace' = <<>>
    /\ raised' = FALSE
    /\ UNCHANGED serverVars
    /\ UNCHANGED scan
    /\ UNCHANGED <<settings, environ, agent, verdict>>

Next == Construct \/ Dispatch \/ AnswerLocally \/ ProviderReturns \/ NextRequest

Spec == Init /\ [][Next]_vars

-----------------------------------------------------------------------------
(* The classifier on its own *)

InitClassify ==
    /\ ServerIdle
    /\ scan = StartOfScan
    /\ query \in SeqsUpTo(Vocabulary, MaxWords)
    /\ pc = "query"
    /\ analysis = NoAnalysis
    /\ settings = [OPENAI_API_KEY |-> None, ANTHROPIC_API_KEY |-> None,
                   GOOGLE_API_KEY |-> None, ENABLE_CODE_GENERATION |-> TRUE]
    /\ environ = [OPENAI_API_KEY |-> None, ANTHROPIC_API_KEY |-> None,
                  GOOGLE_API_KEY |-> None]
    /\ agent = NoAgent
    /\ codebase = FALSE
    /\ called = <<>>
    /\ reply = NoOutcome
    /\ result = NoResponse
    /\ trace = <<>>
    /\ raised = FALSE
    /\ verdict = FALSE

\* analysis = await self._analyze_query(query)
Analyze ==
    /\ pc = "query"
    /\ analysis' = _analyze_query(query)
    /\ pc' = "analyzed"
    /\ UNCHANGED serverVars
    /\ UNCHANGED scan
    /\ UNCHANGED <<settings, environ, agent, query, codebase, called, reply, result,
                   trace, raised, verdict>>

NextClassify == Analyze

SpecClassify == InitClassify /\ [][NextClassify]_vars

-----------------------------------------------------------------------------
(* The quality gate on its own *)

InitGate ==
    /\ ServerIdle
    /\ scan = StartOfScan
    /\ \E files \in GateInputs : result = [files |-> files, structure |-> {}]
    /\ pc = "unjudged"
    /\ verdict = FALSE
    /\ query = <<>>
    /\ analysis = NoAnalysis
    /\ settings = [OPENAI_API_KEY |-> None, ANTHROPIC_API_KEY |-> None,
                   GOOGLE_API_KEY |-> None, ENABLE_CODE_GENERATION |-> TRUE]
    /\ environ = [OPENAI_API_KEY |-> None, ANTHROPIC_API_KEY |-> None,
                  GOOGLE_API_KEY |-> None]
    /\ agent = NoAgent
    /\ codebase = FALSE
    /\ called = <<>>
    /\ reply = NoOutcome
    /\ trace = <<>>
    /\ raised = FALSE

\* self._is_fallback_code(result)
Judge ==
    /\ pc = "unjudged"
    /\ verdict' = _is_fallback_code(result)
    /\ pc' = "judged"
    /\ UNCHANGED serverVars
    /\ UNCHANGED scan
    /\ UNCHANGED <<settings, environ, agent, query, analysis, codebase, called, reply,
                   result, trace, raised>>

NextGate == Judge

SpecGate == InitGate /\ [][NextGate]_vars


-----------------------------------------------------------------------------
(* The response parser on its own *)

\* a line of prose of 60 characters
LongProse ==
    MkLine("text", 0, <<"The service stores every record in one table of the database">>, 60, FALSE, FALSE)

\* the lines the replies given to the parser are made of
ParseLines ==
    {BlankLine, LongProse, Indent(CodeLine, 4), FenceLine("python"), FenceLine(""),
     MarkerLine("main.py")}

\* the analysis the parser is called with
ParseQuery == <<"build", "a", "todo", "app", "in", "Go">>

InitParse ==
    /\ ServerIdle
    /\ scan = StartOfScan
    /\ reply \in {Outcome("ok", l) : l \in SeqsUpTo(ParseLines, MaxReplyLines)}
    /\ pc = "unparsed"
    /\ query = ParseQuery
    /\ analysis = _analyze_query(ParseQuery)
    /\ result = NoResult
    /\ trace = <<>>
    /\ raised = FALSE
    /\ settings = [OPENAI_API_KEY |-> None, ANTHROPIC_API_KEY |-> None,
                   GOOGLE_API_KEY |-> None, ENABLE_CODE_GENERATION |-> TRUE]
    /\ environ = [OPENAI_API_KEY |-> None, ANTHROPIC_API_KEY |-> None,
                  GOOGLE_API_KEY |-> None]
    /\ agent = NoAgent
    /\ codebase = TRUE
    /\ called = <<>>
    /\ verdict = FALSE

\* _parse_codebase_response from the end of the primary scan on: primary is what
\* the scan left in files
Parsed(primary, lines, an) ==
    /\ result' = ParsedResult(OrAlternative(primary, lines, an), an)
    /\ trace' = IF primary = <<>> THEN <<"scan", "alternative">> ELSE <<"scan">>

\* self._parse_codebase_response(content, analysis)
Parse ==
    /\ pc = "unparsed"
    /\ Parsed(PrimaryScan(reply.lines), reply.lines, analysis)
    /\ raised' = result'.raises
    /\ pc' = "parsed"
    /\ UNCHANGED serverVars
    /\ UNCHANGED scan
    /\ UNCHANGED <<settings, environ, agent, query, analysis, codebase, called, reply,
                   verdict>>

NextParse == Parse

SpecParse == InitParse /\ [][NextParse]_vars

-----------------------------------------------------------------------------
(* The Fallback Synthesizer on its own *)

InitSynth ==
    /\ ServerIdle
    /\ scan = StartOfScan
    /\ query \in Queries
    /\ analysis = _analyze_query(query)
    /\ pc = "idle"
    /\ reply = NoOutcome
    /\ result = NoResult
    /\ trace = <<>>
    /\ raised = FALSE
    /\ settings = [OPENAI_API_KEY |-> None, ANTHROPIC_API_KEY |-> None,
                   GOOGLE_API_KEY |-> None, ENABLE_CODE_GENERATION |-> TRUE]
    /\ environ = [OPENAI_API_KEY |-> None, ANTHROPIC_API_KEY |-> None,
                  GOOGLE_API_KEY |-> None]
    /\ agent = NoAgent
    /\ codebase = TRUE
    /\ called = <<>>
    /\ verdict = FALSE

\* the replies whose parses are handed to the synthesizer: one piece, or nothing
SingleReplies == {<<>>} \cup {Segments[i] : i \in 1..Len(Segments)}

\* the existing_result the synthesizer is handed after the reply o: the parse of
\* the reply, or None where no parse was returned
ExistingResult(o, an) ==
    IF o.kind = "ok" /\ ~_parse_codebase_response(o.lines, an).raises
    THEN _parse_codebase_response(o.lines, an)
    ELSE NoResult

\* self._generate_enhanced_fallback(query, analysis, existing_result), called again
\* on the same query and analysis with whatever result is at hand
Synthesize ==
    /\ pc \in {"idle", "synthesized"}
    /\ Len(trace) < MaxSynthRuns
    /\ \E o \in OutcomesOf("openai", SingleReplies) :
          /\ reply' = o
          /\ result' = _generate_enhanced_fallback(query, analysis, ExistingResult(o, analysis))
    /\ trace' = Append(trace, "synthesize")
    /\ pc' = "synthesized"
    /\ UNCHANGED serverVars
    /\ UNCHANGED scan
    /\ UNCHANGED <<settings, environ, agent, query, analysis, codebase, called, raised,
                   verdict>>

NextSynth == Synthesize

SpecSynth == InitSynth /\ [][NextSynth]_vars

-----------------------------------------------------------------------------
(* The server: main.process_query and OutputManager, the requests sharing one
   event loop *)

\* the queries submitted to the server: a code request and a prose request
ServerQueries ==
    { <<"build", "a", "todo", "app", "in", "Go">>,
      <<"Explain", "what", "is", "a", "binary", "search", "tree">> }

\* a reply whose FILE: markers name a traversal path and an absolute path
SegEvil == <<MarkerLine("../evil.py"), CodeLine, MarkerLine("/etc/passwd"), CodeLine>>

\* the texts the provider replies with
ServerReplies == {SegModule, SegEvil}

\* the variables of a single agent run, left alone by the server
requestVars ==
    <<agent, pc, query, analysis, codebase, called, reply, result, trace, raised, verdict,
      scan>>

InitServer ==
    /\ ServerIdle
    /\ scan = StartOfScan
    /\ \E key \in {None, "sk-settings"} :
          settings = [OPENAI_API_KEY |-> key, ANTHROPIC_API_KEY |-> None,
                      GOOGLE_API_KEY |-> None, ENABLE_CODE_GENERATION |-> TRUE]
    /\ environ = [OPENAI_API_KEY |-> None, ANTHROPIC_API_KEY |-> None,
                  GOOGLE_API_KEY |-> None]
    /\ agent = NoAgent
    /\ pc = "serving"
    /\ query = <<>>
    /\ analysis = NoAnalysis
    /\ codebase = FALSE
    /\ called = <<>>
    /\ reply = NoOutcome
    /\ result = NoResponse
    /\ trace = <<>>
    /\ raised = FALSE
    /\ verdict = FALSE

\* the handler of request r holds the event loop
Runs(r, at) == tasks[r].pc = at /\ running = r

\* the handler is entered; with an upload it awaits file.read() and gives up the
\* event loop until the read completes
Accept(r) ==
    /\ tasks[r].pc = "new"
    /\ running = 0
    /\ \E q \in ServerQueries, upload \in BOOLEAN :
          /\ tasks' = [tasks EXCEPT ![r].query = q,
                                    ![r].pc = IF upload THEN "reading" ELSE "started"]
          /\ running' = IF upload THEN 0 ELSE r
    /\ UNCHANGED <<clock, disk, settings, environ>>
    /\ UNCHANGED requestVars

\* content = await file.read() completes and the handler is scheduled again
Resume(r) ==
    /\ tasks[r].pc = "reading"
    /\ running = 0
    /\ tasks' = [tasks EXCEPT ![r].pc = "started"]
    /\ running' = r
    /\ UNCHANGED <<clock, disk, settings, environ>>
    /\ UNCHANGED requestVars

\* agent.process_query has returned res, or the exception it raised has been turned
\* into the HTTP 500 reply
Answered(r, res, cb, an) ==
    /\ tasks' = [tasks EXCEPT ![r].analysis = an,
                              ![r].codebase = cb,
                              ![r].result = Response(cb, res, an),
                              ![r].pc = IF res.raises THEN "failed" ELSE "answered"]
    /\ running' = IF res.raises THEN 0 ELSE r

\* agent = SimpleAgent(); agent.process_query(full_query) with no provider active
ServeLocally(r) ==
    /\ Runs(r, "started")
    /\ Dispatched(NewAgent(settings, environ)) = None
    /\ Answered(r, Respond(WantsCode(_analyze_query(tasks[r].query), settings), None,
                           tasks[r].query, _analyze_query(tasks[r].query), NoOutcome),
                WantsCode(_analyze_query(tasks[r].query), settings),
                _analyze_query(tasks[r].query))
    /\ UNCHANGED <<clock, disk, settings, environ>>
    /\ UNCHANGED requestVars

\* agent = SimpleAgent(); agent.process_query(full_query) up to the call of the
\* provider's client, which is made on the event loop and does not give it up;
\* hangs tells whether the call will stay without an answer
CallProvider(r) ==
    /\ Runs(r, "started")
    /\ Dispatched(NewAgent(settings, environ)) # None
    /\ \E h \in BOOLEAN :
          tasks' = [tasks EXCEPT ![r].analysis = _analyze_query(tasks[r].query),
                                 ![r].codebase =
                                     WantsCode(_analyze_query(tasks[r].query), settings),
                                 ![r].provider = Dispatched(NewAgent(settings, environ)),
                                 ![r].hangs = h,
                                 ![r].pc = "calling"]
    /\ UNCHANGED <<running, clock, disk, settings, environ>>
    /\ UNCHANGED requestVars

\* the provider call returns and agent.process_query runs to its return
CallReturns(r) ==
    /\ Runs(r, "calling")
    /\ ~tasks[r].hangs
    /\ \E lines \in ServerReplies :
          Answered(r, Respond(tasks[r].codebase, tasks[r].provider, tasks[r].query,
                              tasks[r].analysis, Outcome("ok", lines)),
                   tasks[r].codebase, tasks[r].analysis)
    /\ UNCHANGED <<clock, disk, settings, environ>>
    /\ UNCHANGED requestVars

\* output_manager = OutputManager(); timestamp = datetime.now().strftime(...)
Stamp(r) ==
    /\ Runs(r, "answered")
    /\ tasks' = [tasks EXCEPT ![r].timestamp = clock,
                              ![r].pc = IF tasks[r].result.type = "codebase"
                                        THEN "stamped" ELSE "text"]
    /\ UNCHANGED <<running, clock, disk, settings, environ>>
    /\ UNCHANGED requestVars

\* temp_dir = self.output_dir / f"codebase_{timestamp}"; temp_dir.mkdir(exist_ok=True)
MakeDir(r) ==
    /\ Runs(r, "stamped")
    /\ disk' = [disk EXCEPT !.dirs[tasks[r].timestamp].exists = TRUE]
    /\ tasks' = [tasks EXCEPT ![r].pc = "writing"]
    /\ UNCHANGED <<running, clock, settings, environ>>
    /\ UNCHANGED requestVars

\* the path is absolute: temp_dir / file_path is then file_path itself
IsAbsolute(path) == Len(PathInfo(path).parts) > 1 /\ PathInfo(path).parts[1] = ""

\* some prefix of the path has more '..' segments than named ones
Climbs(path) ==
    LET parts == PathInfo(path).parts
    IN  \E k \in 1..Len(parts) :
           Cardinality({i \in 1..k : parts[i] = ".."})
             > Cardinality({i \in 1..k : parts[i] \notin {"..", ".", ""}})

\* temp_dir / file_path is not under temp_dir
Escapes(path) == IsAbsolute(path) \/ Climbs(path)

\* the first n files as written by request r: what lands under temp_dir and what
\* lands elsewhere
WrittenInside(files, n, r) ==
    {[path |-> files[i].path, content |-> files[i].content, by |-> r] :
        i \in {j \in 1..n : ~Escapes(files[j].path)}}

WrittenOutside(files, n, r) ==
    {[path |-> files[i].path, content |-> files[i].content, by |-> r] :
        i \in {j \in 1..n : Escapes(files[j].path)}}

\* open(full_path, "w") over a directory's entries
Overwritten(entries, written) ==
    {e \in entries : \A w \in written : w.path # e.path} \cup written

\* the number of files written before open() raises on an absolute path
BeforeAbsolute(files) ==
    (CHOOSE i \in 1..Len(files) :
        IsAbsolute(files[i].path) /\ \A j \in 1..(i - 1) : ~IsAbsolute(files[j].path)) - 1

\* the for loop of _generate_codebase_zip when every open() succeeds
WriteFiles(r) ==
    /\ Runs(r, "writing")
    /\ disk' = [disk EXCEPT
                  !.dirs[tasks[r].timestamp].entries =
                      Overwritten(@, WrittenInside(tasks[r].result.content.files,
                                                   Len(tasks[r].result.content.files), r)),
                  !.outside =
                      Overwritten(@, WrittenOutside(tasks[r].result.content.files,
                                                    Len(tasks[r].result.content.files), r))]
    /\ tasks' = [tasks EXCEPT ![r].pc = "zipping"]
    /\ UNCHANGED <<running, clock, settings, environ>>
    /\ UNCHANGED requestVars

\* the for loop when open() raises on an absolute path the process may not write:
\* the except clause removes temp_dir and raises, and the handler replies HTTP 500
WriteDenied(r) ==
    /\ Runs(r, "writing")
    /\ \E i \in 1..Len(tasks[r].result.content.files) :
          IsAbsolute(tasks[r].result.content.files[i].path)
    /\ disk' = [disk EXCEPT
                  !.dirs[tasks[r].timestamp] = Missing,
                  !.outside =
                      Overwritten(@, WrittenOutside(tasks[r].result.content.files,
                                                    BeforeAbsolute(tasks[r].result.content.files),
                                                    r))]
    /\ tasks' = [tasks EXCEPT ![r].pc = "failed"]
    /\ running' = 0
    /\ UNCHANGED <<clock, settings, environ>>
    /\ UNCHANGED requestVars

\* zipfile.ZipFile(zip_path, 'w'): the archive codebase_{timestamp}.zip is created or
\* truncated, and every file under temp_dir is added
Zip(r) ==
    /\ Runs(r, "zipping")
    /\ disk' = [disk EXCEPT !.zips[tasks[r].timestamp] =
                                [exists |-> TRUE,
                                 entries |-> disk.dirs[tasks[r].timestamp].entries]]
    /\ tasks' = [tasks EXCEPT ![r].pc = "cleaning"]
    /\ UNCHANGED <<running, clock, settings, environ>>
    /\ UNCHANGED requestVars

\* shutil.rmtree(temp_dir); return zip_path; the handler returns its JSON reply
RemoveDir(r) ==
    /\ Runs(r, "cleaning")
    /\ disk' = [disk EXCEPT !.dirs[tasks[r].timestamp] = Missing]
    /\ tasks' = [tasks EXCEPT ![r].pc = "done",
                              ![r].output_path = [kind |-> "zips",
                                                  stamp |-> tasks[r].timestamp]]
    /\ running' = 0
    /\ UNCHANGED <<clock, settings, environ>>
    /\ UNCHANGED requestVars

\* _generate_text_file: open(response_{timestamp}.txt, "w"); the handler returns
WriteText(r) ==
    /\ Runs(r, "text")
    /\ disk' = [disk EXCEPT !.texts[tasks[r].timestamp] =
                                [exists |-> TRUE,
                                 entries |-> {[path |-> "response",
                                               content |-> tasks[r].result.content,
                                               by |-> r]}]]
    /\ tasks' = [tasks EXCEPT ![r].pc = "done",
                              ![r].output_path = [kind |-> "texts",
                                                  stamp |-> tasks[r].timestamp]]
    /\ running' = 0
    /\ UNCHANGED <<clock, settings, environ>>
    /\ UNCHANGED requestVars

\* a second passes
Tick ==
    /\ clock < MaxClock
    /\ clock' = clock + 1
    /\ UNCHANGED <<tasks, running, disk, settings, environ>>
    /\ UNCHANGED requestVars

\* the steps of the handler of request r
Handler(r) ==
    \/ Accept(r)
    \/ Resume(r)
    \/ ServeLocally(r)
    \/ CallProvider(r)
    \/ CallReturns(r)
    \/ Stamp(r)
    \/ MakeDir(r)
    \/ WriteFiles(r)
    \/ WriteDenied(r)
    \/ Zip(r)
    \/ RemoveDir(r)
    \/ WriteText(r)

NextServer == (\E r \in Requests : Handler(r)) \/ Tick

SpecServer == InitServer /\ [][NextServer]_vars

-----------------------------------------------------------------------------
(* Requirement extraction on its own *)

InitRequirements ==
    /\ ServerIdle
    /\ scan = StartOfScan
    /\ query \in SeqsUpTo(Vocabulary, MaxWords) \cup Queries
    /\ pc = "query"
    /\ analysis = NoAnalysis
    /\ result = [requirements |-> <<>>]
    /\ settings = [OPENAI_API_KEY |-> None, ANTHROPIC_API_KEY |-> None,
                   GOOGLE_API_KEY |-> None, ENABLE_CODE_GENERATION |-> TRUE]
    /\ environ = [OPENAI_API_KEY |-> None, ANTHROPIC_API_KEY |-> None,
                  GOOGLE_API_KEY |-> None]
    /\ agent = NoAgent
    /\ codebase = FALSE
    /\ called = <<>>
    /\ reply = NoOutcome
    /\ trace = <<>>
    /\ raised = FALSE
    /\ verdict = FALSE

\* analysis = await self._analyze_query(query), then
\* requirements = self._extract_requirements(query)
ExtractRequirements ==
    /\ pc = "query"
    /\ analysis' = _analyze_query(query)
    /\ result' = [requirements |-> _extract_requirements(query)]
    /\ pc' = "extracted"
    /\ UNCHANGED serverVars
    /\ UNCHANGED scan
    /\ UNCHANGED <<settings, environ, agent, query, codebase, called, reply, trace, raised,
                   verdict>>

NextRequirements == ExtractRequirements

SpecRequirements == InitRequirements /\ [][NextRequirements]_vars
-----------------------------------------------------------------------------
(* The response parser line by line: the while loop of _parse_codebase_response
   and the steps that follow it *)

\* a line of 46 characters: with a fence line and a line break before it, 50
Text46 == MkLine("text", 0, <<"The service keeps every record in one table ok">>, 46, FALSE, FALSE)

\* a line of 47 characters
Text47 == MkLine("text", 0, <<"Each request is answered from the cache at once">>, 47, FALSE, FALSE)

\* the lines the scanned replies are made of
ScanLines ==
    {BlankLine, Text46, Text47, FenceLine("python"), FenceLine("c++"), FenceLine(""),
     MarkerLine("main.py"), MarkerLine("docs/readme.md")}

\* the query of the scanned replies: its detected language is javascript
ScanQuery == <<"build", "a", "React", "app">>

InitScan ==
    /\ ServerIdle
    /\ scan = StartOfScan
    /\ reply \in {Outcome("ok", l) : l \in SeqsUpTo(ScanLines, MaxScanLines)}
    /\ pc = "scanning"
    /\ query = ScanQuery
    /\ analysis = _analyze_query(ScanQuery)
    /\ result = NoResult
    /\ trace = <<>>
    /\ raised = FALSE
    /\ settings = [OPENAI_API_KEY |-> None, ANTHROPIC_API_KEY |-> None,
                   GOOGLE_API_KEY |-> None, ENABLE_CODE_GENERATION |-> TRUE]
    /\ environ = [OPENAI_API_KEY |-> None, ANTHROPIC_API_KEY |-> None,
                  GOOGLE_API_KEY |-> None]
    /\ agent = NoAgent
    /\ codebase = TRUE
    /\ called = <<>>
    /\ verdict = FALSE

\* the branch of the loop body taken for a line
Branch(st, line) ==
    IF line.k = "marker" THEN "marker"
    ELSE IF line.k = "fence"
    THEN IF st.in_code_block THEN "close"
         ELSE IF ~IsSet(st.current_file) /\ FenceTag(line) # "" THEN "infer"
         ELSE "open"
    ELSE IF IsSet(st.current_file) THEN "content"
    ELSE IF ~IsBlank(line) /\ ~st.in_code_block THEN "prose"
    ELSE "skip"

\* line = lines[i]
LineAt(i) == reply.lines[i + 1]

\* one iteration of "while i < len(lines)"
ScanLine ==
    /\ pc = "scanning"
    /\ scan.i < Len(reply.lines)
    /\ scan' = [ScanStep(scan, LineAt(scan.i)) EXCEPT !.i = @ + 1]
    /\ trace' = Append(trace, Branch(scan, LineAt(scan.i)))
    /\ UNCHANGED serverVars
    /\ UNCHANGED <<settings, environ, agent, pc, query, analysis, codebase, called, reply,
                   result, raised, verdict>>

\* the loop ends; "Save last file if exists"
SaveLast ==
    /\ pc = "scanning"
    /\ scan.i = Len(reply.lines)
    /\ scan' = CommitLast(scan)
    /\ pc' = "scanned"
    /\ UNCHANGED serverVars
    /\ UNCHANGED <<settings, environ, agent, query, analysis, codebase, called, reply,
                   result, trace, raised, verdict>>

\* "if not files: files = self._parse_alternative_format(content, analysis)"
Alternative ==
    /\ pc = "scanned"
    /\ scan.files = <<>>
    /\ scan' = [scan EXCEPT !.files = _parse_alternative_format(reply.lines, analysis)]
    /\ trace' = Append(trace, "alternative")
    /\ pc' = "retried"
    /\ UNCHANGED serverVars
    /\ UNCHANGED <<settings, environ, agent, query, analysis, codebase, called, reply,
                   result, raised, verdict>>

\* the two returns: the empty result, or the README check and the files with their
\* structure
Return ==
    /\ \/ pc = "scanned" /\ scan.files # <<>>
       \/ pc = "retried"
    /\ scan' = [scan EXCEPT !.files = IF @ = <<>> THEN @ ELSE WithReadme(@, analysis)]
    /\ result' = ParsedResult(scan.files, analysis)
    /\ raised' = result'.raises
    /\ pc' = "parsed"
    /\ UNCHANGED serverVars
    /\ UNCHANGED <<settings, environ, agent, query, analysis, codebase, called, reply,
                   trace, verdict>>

NextScan == ScanLine \/ SaveLast \/ Alternative \/ Return

SpecScan == InitScan /\ [][NextScan]_vars
-----------------------------------------------------------------------------
(* The structure tree on its own *)

\* the paths of the mappings given to _build_structure_tree
TreePaths == {"a", "a/b", "main.py", "src/app.py", "src/../../x.py", "docs/readme.md"}

\* the mappings of up to MaxTreeFiles files: a dict holds a key once
TreeInputs ==
    {[i \in 1..Len(s) |-> File(s[i], <<CodeLine>>)] :
        s \in {t \in SeqsUpTo(TreePaths, MaxTreeFiles) :
                  \A i \in 1..Len(t), j \in 1..Len(t) : i # j => t[i] # t[j]}}

InitTree ==
    /\ ServerIdle
    /\ scan = StartOfScan
    /\ result \in {[files |-> f, structure |-> {}, raises |-> FALSE] : f \in TreeInputs}
    /\ pc = "unbuilt"
    /\ query = <<>>
    /\ analysis = NoAnalysis
    /\ reply = NoOutcome
    /\ trace = <<>>
    /\ raised = FALSE
    /\ settings = [OPENAI_API_KEY |-> None, ANTHROPIC_API_KEY |-> None,
                   GOOGLE_API_KEY |-> None, ENABLE_CODE_GENERATION |-> TRUE]
    /\ environ = [OPENAI_API_KEY |-> None, ANTHROPIC_API_KEY |-> None,
                  GOOGLE_API_KEY |-> None]
    /\ agent = NoAgent
    /\ codebase = TRUE
    /\ called = <<>>
    /\ verdict = FALSE

\* "structure": self._build_structure_tree(files)
BuildTree ==
    /\ pc = "unbuilt"
    /\ result' = CodebaseOf(result.files)
    /\ raised' = result'.raises
    /\ pc' = "built"
    /\ UNCHANGED serverVars
    /\ UNCHANGED scan
    /\ UNCHANGED <<settings, environ, agent, query, analysis, codebase, called, reply,
                   trace, verdict>>

NextTree == BuildTree

SpecTree == InitTree /\ [][NextTree]_vars
-----------------------------------------------------------------------------
(* Properties *)

\* the credentials the agent is constructed with, read from the settings and the
\* environment as stored
HasCredential(cfg, env) == (cfg # None /\ cfg # "") \/ (cfg \in {None, ""} /\ env # None /\ env # "")

CredentialA == HasCredential(settings.OPENAI_API_KEY, environ.OPENAI_API_KEY)

CredentialB == HasCredential(settings.ANTHROPIC_API_KEY, environ.ANTHROPIC_API_KEY)

CredentialC == HasCredential(settings.GOOGLE_API_KEY, environ.GOOGLE_API_KEY)

\* the request ended as a code request
CodeRequestDone == pc = "done" /\ codebase

\* the files the Fallback Synthesizer assembles for the request at hand
SynthesizedFiles == FallbackFiles(query, analysis, _extract_requirements(query))

\* the files the parser extracts from the reply at hand, before a README is added
ExtractedFiles == OrAlternative(PrimaryScan(reply.lines), reply.lines, analysis)

\* the parse of the reply at hand
ParseOfReply == _parse_codebase_response(reply.lines, analysis)

\* C1 (as stated): every code request, whatever the provider outcome, ends without
\* an exception in a result tagged "codebase" whose files mapping is non-empty and
\* has the key README.md.
C1_ReadmeKey ==
    CodeRequestDone =>
        /\ ~raised
        /\ result.type = "codebase"
        /\ result.content.files # <<>>
        /\ HasKey(result.content.files, "README.md")

\* C1 (amended): every code request, whatever the provider outcome, ends without an
\* exception in a result tagged "codebase" whose files mapping is non-empty and has
\* an entry whose path ends, case-insensitively, in readme.md.
C1_NeverBareError ==
    CodeRequestDone =>
        /\ ~raised
        /\ result.type = "codebase"
        /\ result.content.files # <<>>
        /\ \E i \in 1..Len(result.content.files) :
              PathInfo(result.content.files[i].path).readme

\* a code request whose reply made the parse step raise has ended in a project
C1_Witness ==
    /\ CodeRequestDone
    /\ reply = Outcome("ok", SegNested)
    /\ result.type = "codebase"
    /\ HasKey(result.content.files, "README.md")

\* C2: the result is the codebase variant exactly when the verdict is positive and
\* code generation is enabled; otherwise it is the text variant and neither the
\* parser nor the Fallback Synthesizer has run.
C2_VariantByVerdictAndSetting ==
    pc = "done" =>
        LET wanted == analysis.should_generate_code /\ settings.ENABLE_CODE_GENERATION
        IN  /\ (result.type = "codebase") <=> wanted
            /\ ~wanted => /\ result.type = "text"
                          /\ "parse" \notin Range(trace)
                          /\ "synthesize" \notin Range(trace)

\* a positive verdict with code generation disabled, answered as text by a provider
C2_Witness ==
    /\ pc = "done"
    /\ analysis.should_generate_code
    /\ ~settings.ENABLE_CODE_GENERATION
    /\ called # <<>>
    /\ result.type = "text"

\* C3: should_generate_code is true exactly when code_score > text_score and
\* code_score > 0; on equal scores it is false and the reason is the text reason.
C3_DecisionRule ==
    pc = "analyzed" =>
        /\ analysis.code_score = Score(code_keywords, query_lower(query))
        /\ analysis.text_score = Score(text_keywords, query_lower(query))
        /\ analysis.should_generate_code <=>
              (analysis.code_score > analysis.text_score /\ analysis.code_score > 0)
        /\ analysis.code_score = analysis.text_score =>
              /\ ~analysis.should_generate_code
              /\ analysis.reason = "Query better suited for text response"

\* a query that scores the same, above zero, on both keyword lists
C3_Witness ==
    /\ pc = "analyzed"
    /\ analysis.code_score = analysis.text_score
    /\ analysis.code_score > 0
    /\ ~analysis.should_generate_code

\* at most one provider is active, by the priority A > B > C, and each call made
\* went to the active provider
C4_Priority ==
    pc # "start" =>
        /\ agent.use_openai <=> CredentialA
        /\ agent.use_anthropic <=> (CredentialB /\ ~CredentialA)
        /\ agent.use_gemini <=> (CredentialC /\ ~CredentialA /\ ~CredentialB)
        /\ Cardinality({f \in {"use_openai", "use_anthropic", "use_gemini"} : agent[f]}) <= 1
        /\ pc \in {"calling", "done"} =>
              /\ (called = <<"openai">>) <=> agent.use_openai
              /\ (called = <<"anthropic">>) <=> agent.use_anthropic
              /\ (called = <<"gemini">>) <=> agent.use_gemini
              /\ Len(called) <= 1

\* C4: at most one provider is active, chosen by the priority A > B > C from the
\* credentials present; the choice does not change after construction, and every
\* generation call of the agent goes to the active provider only.
C4_OneProviderFixed ==
    /\ []C4_Priority
    /\ [][pc # "start" => agent' = agent]_vars

\* B and C have credentials, A has none: the call went to B
C4_Witness ==
    /\ pc = "done"
    /\ ~CredentialA /\ CredentialB /\ CredentialC
    /\ called = <<"anthropic">>

\* C5: with no credential, no provider call is made: a code request returns the
\* Fallback Synthesizer's output and a prose request a local text with the query.
C5_NoCredentialNoCall ==
    (pc \in {"calling", "done"} /\ ~CredentialA /\ ~CredentialB /\ ~CredentialC) =>
        /\ pc = "done"
        /\ called = <<>>
        /\ "provider" \notin Range(trace)
        /\ ~raised
        /\ codebase =>
              /\ result.type = "codebase"
              /\ result.content.files = SynthesizedFiles
              /\ trace = <<"classify", "synthesize">>
        /\ ~codebase =>
              /\ result.type = "text"
              /\ result.content[1].a = <<"Response to query: ">> \o query
              /\ trace = <<"classify">>

\* a code request answered without credentials
C5_Witness ==
    /\ pc = "done"
    /\ ~CredentialA /\ ~CredentialB /\ ~CredentialC
    /\ codebase
    /\ result.type = "codebase"
    /\ query # <<>>

\* an error was raised during the provider call or while handling its reply
ErrorInAdapter ==
    /\ pc = "done"
    /\ called # <<>>
    /\ \/ reply.kind \in {"raise", "none", "noshape"}
       \/ reply.kind = "ok" /\ codebase /\ ParseOfReply.raises

\* C6: an error raised during the provider call or while handling its reply does
\* not leave the adapter: a code request gets the Fallback Synthesizer's output, a
\* prose request the text "Error generating response: <message>".
C6_AdapterCatches ==
    ErrorInAdapter =>
        /\ ~raised
        /\ codebase =>
              /\ result.type = "codebase"
              /\ result.content.files = SynthesizedFiles
        /\ ~codebase =>
              /\ result.type = "text"
              /\ Len(result.content) = 1
              /\ result.content[1].a[1] = "Error generating response: "
              /\ Len(result.content[1].a) = 2

\* a Gemini response with no text, for a prose request
C6_Witness ==
    /\ ErrorInAdapter
    /\ called = <<"gemini">>
    /\ reply.kind = "noshape"
    /\ ~codebase
    /\ result.type = "text"

\* the parse of the reply was returned by the adapter and then found empty or
\* fallback-quality
ParseDiscarded ==
    /\ CodeRequestDone
    /\ called # <<>>
    /\ reply.kind = "ok"
    /\ ~ParseOfReply.raises
    /\ (ParseOfReply.files = <<>> \/ _is_fallback_code(ParseOfReply))

\* C7: when the parse is empty or fallback-quality, the result is exactly the
\* Fallback Synthesizer's output for the query and analysis, with nothing of the
\* discarded parse in it.
C7_ReplacedWholesale ==
    ParseDiscarded =>
        /\ result.type = "codebase"
        /\ result.content.files = SynthesizedFiles
        /\ result.content.structure = _build_structure_tree(SynthesizedFiles).nodes

\* a discarded parse that held a file the synthesizer does not produce
C7_Witness ==
    /\ ParseDiscarded
    /\ HasKey(ParseOfReply.files, "app.py")
    /\ ~HasKey(SynthesizedFiles, "app.py")
    /\ result.type = "codebase"

\* the reply has no README of its own, and every file extracted from it holds a
\* placeholder phrase in fewer than 10 lines and no more than 200 characters
PlaceholderOnly ==
    /\ ExtractedFiles # <<>>
    /\ ~ReadmeExists(ExtractedFiles)
    /\ \A i \in 1..Len(ExtractedFiles) :
          /\ HasPattern(ExtractedFiles[i].content)
          /\ CodeLineCount(ExtractedFiles[i].content) < MinCodeLines
          /\ ContentLen(ExtractedFiles[i].content) <= SubstantialLen

\* C8: when the files parsed from the reply are placeholder-only, the result is the
\* Fallback Synthesizer's project, not the parsed one.
C8_PlaceholderReplaced ==
    (CodeRequestDone /\ called # <<>> /\ reply.kind = "ok" /\ PlaceholderOnly) =>
        result.content.files = SynthesizedFiles

\* C9: a result whose files hold fewer than 10 non-comment, non-blank lines in all
\* is judged fallback-quality, whatever the files contain.
C9_FewLinesRejected ==
    (pc = "judged" /\ total_code_lines(result.files) < MinCodeLines) => verdict

OneBlockReply ==
    /\ \A i \in 1..Len(reply.lines) : reply.lines[i].k # "marker"
    /\ Cardinality(FenceIndexes(reply.lines)) = 2
    /\ FenceTag(reply.lines[NextFence(reply.lines, 0)]) = "python"
    /\ FenceTag(reply.lines[NextFence(reply.lines, NextFence(reply.lines, 0))]) = ""
    /\ StripContent(CodeBlocks(reply.lines, 0)[1].code) # <<>>

\* the non-blank lines of the reply at hand that lie outside its one fenced block
ProseOfReply ==
    {i \in 1..Len(reply.lines) :
        /\ ~IsBlank(reply.lines[i])
        /\ \/ i < NextFence(reply.lines, 0)
           \/ i > NextFence(reply.lines, NextFence(reply.lines, 0))}

\* C11: for a reply with no FILE: marker, one fenced python block and 120
\* characters of prose around it, the parser returns exactly main.py, holding the
\* block's content, and README.md, holding all of the prose, and it does so through
\* the alternate extraction: the primary scan yields no files.
C11_OneBlockViaAlternative ==
    (/\ pc = "parsed"
     /\ OneBlockReply
     /\ SumSeq([i \in 1..Len(reply.lines) |->
                   IF i \in ProseOfReply THEN reply.lines[i].ind + reply.lines[i].len
                   ELSE 0]) = 120)
    =>  /\ ~raised
        /\ Len(result.files) = 2
        /\ HasKey(result.files, "main.py")
        /\ HasKey(result.files, "README.md")
        /\ Get(result.files, "main.py") = StripContent(CodeBlocks(reply.lines, 0)[1].code)
        /\ \A i \in ProseOfReply : reply.lines[i] \in Range(Get(result.files, "README.md"))
        /\ Cardinality({j \in 1..Len(Get(result.files, "README.md")) :
                           ~IsBlank(Get(result.files, "README.md")[j])})
             = Cardinality(ProseOfReply)
        /\ trace = <<"scan", "alternative">>

\* C12: when neither the primary scan nor the alternate extraction produces a file,
\* the parser returns empty files and an empty structure, without raising and
\* without a README, and the request ends with the Fallback Synthesizer's output,
\* which holds an entry file and README.md.
C12_EmptyParseHandsOff ==
    (CodeRequestDone /\ called # <<>> /\ reply.kind = "ok" /\ ExtractedFiles = <<>>) =>
        /\ ParseOfReply.files = <<>>
        /\ ParseOfReply.structure = {}
        /\ ~ParseOfReply.raises
        /\ ~raised
        /\ result.type = "codebase"
        /\ result.content.files = SynthesizedFiles
        /\ HasKey(result.content.files, "README.md")
        /\ \E ext \in {"py", "js", "ts", analysis.language} :
              HasKey(result.content.files, "main." \o ext)

\* a code request whose provider replied with the empty string
C12_Witness ==
    /\ CodeRequestDone
    /\ called # <<>>
    /\ reply = Outcome("ok", <<>>)
    /\ result.type = "codebase"
    /\ trace = <<"classify", "provider", "parse", "synthesize">>

\* the lines c without their leading and trailing blank lines, each kept line as it is
TrimBlankLines(c) ==
    LET keep == {i \in 1..Len(c) : ~IsBlank(c[i])}
    IN  IF keep = {} THEN <<>>
        ELSE SubSeq(c, CHOOSE i \in keep : \A j \in keep : i <= j,
                       CHOOSE i \in keep : \A j \in keep : i >= j)

\* the reply at hand is one FILE: marker followed by lines that are neither markers
\* nor fences: the file's delimiters are the marker and the end of the input
OneMarkedFile ==
    /\ Len(reply.lines) >= 2
    /\ reply.lines[1].k = "marker"
    /\ \A i \in 2..Len(reply.lines) : reply.lines[i].k \notin {"marker", "fence"}

\* C13: the content committed for a file is the original lines between its opening
\* and closing delimiters, in order, with only leading and trailing blank lines
\* removed: no line dropped, no character of a kept line altered (the first line's
\* indentation included), nothing inserted or reordered.
C13_CommittedVerbatim ==
    (pc = "parsed" /\ OneMarkedFile) =>
        /\ HasKey(result.files, MarkerPath(reply.lines[1]))
        /\ Get(result.files, MarkerPath(reply.lines[1])) = TrimBlankLines(Tail(reply.lines))

\* the synthesizer's output is the one determined by the query and the analysis
SynthesizedFromQuery ==
    pc = "synthesized" =>
        /\ result.files = SynthesizedFiles
        /\ result.structure = _build_structure_tree(SynthesizedFiles).nodes
        /\ ~result.raises

C15_RelativeKeysOnly ==
    /\ \A r \in Requests :
          tasks[r].result.type = "codebase" =>
              \A i \in 1..Len(tasks[r].result.content.files) :
                  /\ ~IsAbsolute(tasks[r].result.content.files[i].path)
                  /\ ".." \notin Range(PathInfo(tasks[r].result.content.files[i].path).parts)
    /\ disk.outside = {}

\* C16: for a prose request answered by a provider, the result's content is the
\* provider's reply text unchanged, or the text "Error generating response: ..."
\* when the call fails; neither the parser nor the synthesizer (nor the gate that
\* leads to it) is applied, and the metadata carries the classifier's reason.
C16_ProseAsIs ==
    (pc = "done" /\ ~codebase /\ called # <<>>) =>
        /\ ~raised
        /\ result.type = "text"
        /\ reply.kind = "ok" => result.content = reply.lines
        /\ reply.kind # "ok" =>
              /\ Len(result.content) = 1
              /\ result.content[1].a[1] = "Error generating response: "
        /\ trace = <<"classify", "provider">>
        /\ result.metadata = [reason |-> analysis.reason]

\* a prose request whose reply, a well-formed project, is returned as it is
C16_Witness ==
    /\ pc = "done"
    /\ ~codebase
    /\ called # <<>>
    /\ reply = Outcome("ok", SegModule \o SegStub)
    /\ result.type = "text"
    /\ result.content = reply.lines
    /\ ~analysis.should_generate_code

\* C17: with two requests in flight, a provider call that hangs in one of them
\* blocks only that request: the other one, as long as it has not ended, can still
\* take its next step while the first is stuck in the call.
C17_HangBlocksOnlyItself ==
    \A r \in Requests, s \in Requests :
        (/\ r # s
         /\ tasks[r].pc = "calling"
         /\ tasks[r].hangs
         /\ tasks[s].pc \notin {"done", "failed"})
        => ENABLED Handler(s)

\* what the handler of request r is to find persisted at its output path
OwnOutput(r) ==
    IF tasks[r].output_path.kind = "zips"
    THEN WrittenInside(tasks[r].result.content.files,
                       Len(tasks[r].result.content.files), r)
    ELSE {[path |-> "response", content |-> tasks[r].result.content, by |-> r]}

\* C18: no resource is shared between requests processed concurrently: whatever
\* the interleaving, and also when both are persisted within the same second, the
\* persisted output of a request that has ended holds exactly the files of its own
\* result, written by itself, and was not overwritten or deleted by another request.
C18_NothingShared ==
    \A r \in Requests :
        tasks[r].pc = "done" =>
            /\ disk[tasks[r].output_path.kind][tasks[r].output_path.stamp].exists
            /\ disk[tasks[r].output_path.kind][tasks[r].output_path.stamp].entries
                 = OwnOutput(r)

\* the place of a bullet in the fixed order of the groups, 0 for any other line
GroupOf(bullet) ==
    IF \E g \in 1..Len(requirement_groups) : requirement_groups[g].bullet = bullet
    THEN CHOOSE g \in 1..Len(requirement_groups) : requirement_groups[g].bullet = bullet
    ELSE 0

\* C19: requirement extraction emits one bullet for every topical group that
\* matches the query, all of them, in the fixed order of the groups, and the generic
\* bullet exactly when no group matches; for the query "Create a REST API with
\* FastAPI that handles user authentication" the bullets include the authentication
\* and the API entries, and the analysis is code, python, fastapi.
C19_AllMatchingGroups ==
    pc = "extracted" =>
        /\ \A g \in 1..Len(requirement_groups) :
              GroupMatches(g, query)
                <=> Cardinality({i \in 1..Len(result.requirements) :
                                    result.requirements[i] = requirement_groups[g].bullet}) = 1
        /\ \A i \in 1..Len(result.requirements), j \in 1..Len(result.requirements) :
              i < j => GroupOf(result.requirements[i]) < GroupOf(result.requirements[j])
        /\ (GenericBullet \in Range(result.requirements))
              <=> (\A g \in 1..Len(requirement_groups) : ~GroupMatches(g, query))
        /\ \A i \in 1..Len(result.requirements) :
              result.requirements[i] = GenericBullet \/ GroupOf(result.requirements[i]) > 0
        /\ query = <<"Create", "a", "REST", "API", "with", "FastAPI", "that", "handles",
                     "user", "authentication">> =>
              /\ "- User authentication/login functionality" \in Range(result.requirements)
              /\ "- API endpoints/REST API" \in Range(result.requirements)
              /\ analysis.should_generate_code
              /\ analysis.language = "python"
              /\ analysis.framework = "fastapi"

\* the scenario query: three groups match at once
C19_Witness ==
    /\ pc = "extracted"
    /\ query = <<"Create", "a", "REST", "API", "with", "FastAPI", "that", "handles",
                 "user", "authentication">>
    /\ result.requirements = <<"- User authentication/login functionality",
                               "- API endpoints/REST API", "- CRUD operations">>

\* some keyword of the i-th language of the table is a substring of the lower-cased
\* query at hand
LanguageHit(i) ==
    \E j \in 1..Len(language_keywords[i].keywords) :
        KeywordIn(language_keywords[i].keywords[j], query_lower(query))

\* the query at hand is made of explanation keywords only: every word of it lies in
\* an occurrence of a keyword of the explanation vocabulary, word for word
ExplanationOnly ==
    /\ query # <<>>
    /\ \A i \in 1..Len(query) :
          \E k \in 1..Len(text_keywords), s \in 1..i :
              /\ i <= s + Len(text_keywords[k]) - 1
              /\ s + Len(text_keywords[k]) - 1 <= Len(query)
              /\ \A j \in 1..Len(text_keywords[k]) :
                    query_lower(query)[s + j - 1] = text_keywords[k][j]

\* C20: language detection returns the first language, in the table order python,
\* javascript, typescript, java, go, rust, cpp, c, one of whose keywords is a
\* substring of the lower-cased query, and python when there is none; a query made
\* of explanation keywords only, with no language keyword, gets should_generate_code
\* false and language python.
C20_FirstLanguageInTableOrder ==
    pc = "analyzed" =>
        /\ [i \in 1..Len(language_keywords) |-> language_keywords[i].lang]
             = <<"python", "javascript", "typescript", "java", "go", "rust", "cpp", "c">>
        /\ \A i \in 1..Len(language_keywords) :
              (LanguageHit(i) /\ \A h \in 1..(i - 1) : ~LanguageHit(h))
                => analysis.language = language_keywords[i].lang
        /\ (\A i \in 1..Len(language_keywords) : ~LanguageHit(i))
              => analysis.language = "python"
        /\ (ExplanationOnly /\ \A i \in 1..Len(language_keywords) : ~LanguageHit(i))
              => (~analysis.should_generate_code /\ analysis.language = "python")

\* "rust tests": 'ts' is a substring of 'tests', and typescript comes before rust
C20_Witness ==
    /\ pc = "analyzed"
    /\ query = <<"rust", "tests">>
    /\ LanguageHit(3)
    /\ LanguageHit(6)
    /\ analysis.language = "typescript"

\* the line the scanner is about to read
AtLine == pc = "scanning" /\ scan.i < Len(reply.lines)

\* the lines read while no target was set that are non-blank and neither a FILE:
\* marker nor a fence, in the order of the reply
LooseProse ==
    SelectSeq2(reply.lines,
               {k \in 1..Len(trace) : trace[k] \in {"prose", "skip"} /\ ~IsBlank(reply.lines[k])},
               1)

\* C21: at the end of the primary scan README.md holds every non-blank line that is
\* neither a FILE: marker nor a fence and was read while no target was set, in the
\* original order, not only the first one.
C21_AllLooseProseKept ==
    (pc = "scanned" /\ LooseProse # <<>>) =>
        /\ HasKey(scan.files, "README.md")
        /\ Get(scan.files, "README.md") = LooseProse

\* the files after a commit of the buffer under the target, by the claims' words:
\* the content with its leading and trailing blank lines removed
Committed(files, path, buffer) ==
    LET keep == {i \in 1..Len(buffer) : ~IsBlank(buffer[i])}
        lo == CHOOSE i \in keep : \A j \in keep : i <= j
        hi == CHOOSE i \in keep : \A j \in keep : i >= j
        text == IF keep = {} THEN <<>>
                ELSE [i \in 1..(hi - lo + 1) |->
                        IF i = 1 THEN [buffer[lo] EXCEPT !.ind = 0] ELSE buffer[lo + i - 1]]
    IN  IF \E i \in 1..Len(files) : files[i].path = path
        THEN [i \in 1..Len(files) |->
                IF files[i].path = path THEN [path |-> path, content |-> text] ELSE files[i]]
        ELSE files \o << [path |-> path, content |-> text] >>

\* C22: on every FILE: marker line, in any parser state, the previous target's
\* accumulated content is committed under the previous target's path, the marker's
\* path becomes the current target, the buffer is emptied and the block state is
\* outside-block; a previous target that accumulated no content produces no file
\* entry.
C22_MarkerFlushes ==
    [][(AtLine /\ LineAt(scan.i).k = "marker") =>
          /\ scan'.files =
                IF IsSet(scan.current_file) /\ scan.current_content # <<>>
                THEN Committed(scan.files, scan.current_file, scan.current_content)
                ELSE scan.files
          /\ scan'.current_file = LineAt(scan.i).a[1]
          /\ scan'.current_content = <<>>
          /\ ~scan'.in_code_block]_vars

\* the step replaces or clears the target or its buffer, or is the end of the input
TargetLeft ==
    \/ pc' = "scanned"
    \/ scan'.current_file # scan.current_file
    \/ scan'.current_content = <<>>

\* C23: a buffer with accumulated lines is never discarded uncommitted: whenever the
\* target is cleared or replaced or the input ends, the buffered lines are first
\* committed under the current target's path; and a closing fence reached while a
\* target is set leaves the scanner with no current target and an empty buffer.
C23_NeverDiscarded ==
    [][/\ (pc = "scanning" /\ scan.current_content # <<>> /\ TargetLeft) =>
             /\ IsSet(scan.current_file)
             /\ scan'.files =
                   Committed(scan.files, scan.current_file, scan.current_content)
       /\ (AtLine /\ LineAt(scan.i).k = "fence" /\ scan.in_code_block
             /\ IsSet(scan.current_file)) =>
             /\ scan'.current_file = None
             /\ scan'.current_content = <<>>]_vars

\* a closing fence was read while a target held lines, and they are in files
C23_Witness ==
    /\ pc = "scanning"
    /\ trace # <<>>
    /\ trace[Len(trace)] = "close"
    /\ "content" \in Range(trace)
    /\ scan.current_file = None
    /\ scan.current_content = <<>>
    /\ \E i \in 1..Len(scan.files) : scan.files[i].content # <<>>

\* the extension the claim gives to a tag of the model's replies
TableExt(tag) == IF tag = "python" THEN "py" ELSE "txt"

\* C24: an opening fence with a language tag read while no target is set opens an
\* inferred target main.<ext> for the first inferred file of the reply and
\* file.<ext> for later ones, the extension from the language table (txt for an
\* unknown tag); an opening fence with no tag opens no target.
C24_InferredNames ==
    [][(AtLine /\ LineAt(scan.i).k = "fence" /\ ~scan.in_code_block
          /\ ~IsSet(scan.current_file)) =>
          LET tag == IF LineAt(scan.i).a = <<>> THEN "" ELSE LineAt(scan.i).a[1]
          IN  IF tag = "" THEN ~IsSet(scan'.current_file)
              ELSE IF "infer" \notin Range(trace)
              THEN scan'.current_file = "main." \o TableExt(tag)
              ELSE scan'.current_file = "file." \o TableExt(tag)]_vars

\* C30: in every state of the primary scan a non-empty accumulation buffer implies
\* that a current target is set.
C30_BufferHasTarget ==
    (pc \in {"scanning", "scanned"} /\ scan.current_content # <<>>) =>
        (scan.current_file # None /\ scan.current_file # "")

\* lines are buffered inside a block opened under a marker's target
C30_Witness ==
    /\ pc = "scanning"
    /\ Len(scan.current_content) >= 2
    /\ scan.in_code_block
    /\ "marker" \in Range(trace)
    /\ scan.current_file = "main.py"

\* the fence lines of the reply at hand, in order
FenceAt(n) ==
    CHOOSE i \in 1..Len(reply.lines) :
        /\ reply.lines[i].k = "fence"
        /\ Cardinality({j \in 1..i : reply.lines[j].k = "fence"}) = n

\* the fenced blocks of the reply: the first fence with the second, the third with
\* the fourth, and so on
BlockCount == Cardinality({i \in 1..Len(reply.lines) : reply.lines[i].k = "fence"}) \div 2

\* the name the claim gives to the j-th block
BlockName(j) ==
    LET fence == reply.lines[FenceAt(2 * j - 1)]
        lang == IF fence.a = <<>> THEN analysis.language ELSE fence.a[1]
        ext == CASE lang = "python" -> "py"
                 [] lang = "javascript" -> "js"
                 [] OTHER -> "txt"
    IN  CASE j = 1 -> "main." \o ext
          [] j = 2 -> "file_1." \o ext
          [] j = 3 -> "file_2." \o ext

RECURSIVE BlockFiles(_)
\* the files of the first j blocks
BlockFiles(j) ==
    IF j = 0 THEN <<>>
    ELSE Committed(BlockFiles(j - 1), BlockName(j),
                   SubSeq(reply.lines, FenceAt(2 * j - 1) + 1, FenceAt(2 * j) - 1))

\* what follows the backticks of the fence that closes the j-th block
AfterClosing(j) ==
    LET fence == reply.lines[FenceAt(2 * j)]
    IN  IF fence.a = <<>> THEN <<>>
        ELSE << [k |-> "text", ind |-> 0, a |-> fence.a, len |-> Len(fence.a[1]),
                 pat |-> FALSE, kw |-> FALSE] >>

\* the text outside the blocks: before the first block (j = 0) or after the j-th
\* block up to the next one, trimmed
Outside(j) ==
    LET from == IF j = 0 THEN 1 ELSE FenceAt(2 * j) + 1
        to == IF j = BlockCount THEN Len(reply.lines) ELSE FenceAt(2 * j + 1) - 1
        text == (IF j = 0 THEN <<>> ELSE AfterClosing(j)) \o SubSeq(reply.lines, from, to)
    IN  Committed(<<>>, "", text)[1].content

RECURSIVE NonFenced(_)
\* the non-fenced text, from the j-th piece on: the pieces that are not empty and do
\* not begin with a FILE: marker, an empty line between two of them
NonFenced(j) ==
    IF j > BlockCount THEN <<>>
    ELSE LET piece == Outside(j)
             rest == NonFenced(j + 1)
         IN  IF piece = <<>> \/ piece[1].k = "marker" THEN rest
             ELSE IF rest = <<>> THEN piece
             ELSE piece \o <<BlankLine>> \o rest

\* len() of a text given as its lines
TextLen(c) ==
    IF c = <<>> THEN 0
    ELSE SumSeq([i \in 1..Len(c) |-> c[i].ind + c[i].len]) + Len(c) - 1

\* C25 (the extraction): after the alternate extraction, files holds every fenced
\* block of the text, the first as main.<ext> and the i-th later one as
\* file_<i>.<ext>, the extension from the language table and from the analysis's
\* language when the block has no tag, and README.md built from the non-fenced text
\* only when that text is longer than 50 characters.
C25_AlternativeFiles ==
    pc = "retried" =>
        scan.files =
            IF TextLen(NonFenced(0)) > 50
            THEN BlockFiles(BlockCount) \o << [path |-> "README.md", content |-> NonFenced(0)] >>
            ELSE BlockFiles(BlockCount)

\* C25: the alternate extraction runs if and only if the primary scan committed no
\* file at all, and then extracts the files as C25_AlternativeFiles states (a
\* non-fenced text of exactly 50 characters is discarded).
C25_AlternativeIffEmpty ==
    /\ []C25_AlternativeFiles
    /\ [][(pc' = "retried") <=> (pc = "scanned" /\ scan.files = <<>>)]_vars

\* an entry of the files is recognised as README.md
Recognised(files) == \E i \in 1..Len(files) : PathInfo(files[i].path).readme

\* C26: every non-empty files mapping returned by the parser has an entry recognised
\* as README.md (case-insensitive path-suffix match): if the reply produced none, a
\* synthesized README.md is inserted; if it produced one, no README is added and no
\* parsed entry's content is changed.
C26_ReadmeRepair ==
    /\ []((pc = "parsed" /\ result.files # <<>>) => Recognised(result.files))
    /\ [][(pc' = "parsed" /\ scan.files # <<>>) =>
             IF Recognised(scan.files) THEN result'.files = scan.files
             ELSE result'.files = scan.files \o
                    << [path |-> "README.md",
                        content |-> _generate_comprehensive_readme(
                                        scan.files, analysis.language, analysis.framework,
                                        analysis)] >>]_vars

\* the reply produced docs/readme.md and nothing else: it is returned as it is
C26_Witness ==
    /\ pc = "parsed"
    /\ Len(result.files) = 1
    /\ result.files[1].path = "docs/readme.md"
    /\ result.files[1].content # <<>>

\* the segments of a path
SegmentsOf(path) ==
    CASE path = "a" -> <<"a">>
      [] path = "a/b" -> <<"a", "b">>
      [] path = "main.py" -> <<"main.py">>
      [] path = "src/app.py" -> <<"src", "app.py">>
      [] path = "src/../../x.py" -> <<"src", "..", "..", "x.py">>
      [] path = "docs/readme.md" -> <<"docs", "readme.md">>

\* C27: for every files mapping the structure tree holds, for every path, the chain
\* of nested mappings of its directory segments ending in the leaf marker at the
\* last segment, and nothing else, in any insertion order, also when one path is a
\* proper prefix of another ('a' and 'a/b').
C27_TreeOfEveryPath ==
    pc = "built" =>
        /\ ~raised
        /\ \A i \in 1..Len(result.files) :
              /\ [p |-> SegmentsOf(result.files[i].path), t |-> "file"] \in result.structure
              /\ \A k \in 1..(Len(SegmentsOf(result.files[i].path)) - 1) :
                    [p |-> SubSeq(SegmentsOf(result.files[i].path), 1, k), t |-> "dir"]
                        \in result.structure
        /\ \A n \in result.structure :
              \E i \in 1..Len(result.files) :
                 LET segs == SegmentsOf(result.files[i].path)
                 IN  \/ n.t = "file" /\ n.p = segs
                     \/ n.t = "dir" /\ Len(n.p) < Len(segs) /\ SubSeq(segs, 1, Len(n.p)) = n.p

\* provider C's reply had neither the text field nor candidates
GeminiShapeless == pc = "done" /\ called = <<"gemini">> /\ reply.kind = "noshape"

\* C28 (as stated): when provider C's reply exposes neither the text field nor a
\* non-empty candidates array, the extraction error is propagated out of the
\* provider-C adapter to its caller, and so out of process_query, which catches
\* nothing.
C28_ExtractionErrorPropagates == GeminiShapeless => raised

\* C28 (amended): when provider C's reply exposes neither the text field nor a
\* non-empty candidates array, the extraction error is caught inside the provider-C
\* adapter like any other provider error: a code request gets the Fallback
\* Synthesizer's project, a prose request the text "Error generating response:
\* Unable to extract text from Gemini response", and nothing is raised to the caller.
C28_ExtractionErrorCaught ==
    GeminiShapeless =>
        /\ ~raised
        /\ "parse" \notin Range(trace)
        /\ codebase =>
              /\ result.type = "codebase"
              /\ result.content.files = SynthesizedFiles
        /\ ~codebase =>
              /\ result.type = "text"
              /\ Len(result.content) = 1
              /\ result.content[1].a = <<"Error generating response: ",
                                         "Unable to extract text from Gemini response">>

\* a code request whose Gemini response had no text ended in the synthesized project
C28_Witness ==
    /\ GeminiShapeless
    /\ codebase
    /\ ~raised
    /\ result.type = "codebase"
    /\ "synthesize" \in Range(trace)

\* the place of a step in the order of the pipeline
StepRank(step) ==
    CASE step = "classify" -> 1
      [] step = "provider" -> 2
      [] step = "parse" -> 3
      [] step = "synthesize" -> 4

StepsInOrder ==
    /\ \A i \in 1..Len(trace), j \in 1..Len(trace) :
          i < j => StepRank(trace[i]) <= StepRank(trace[j])
    /\ Cardinality({i \in 1..Len(trace) : trace[i] = "classify"}) <= 1
    /\ Cardinality({i \in 1..Len(trace) : trace[i] = "provider"}) <= 1
    /\ Cardinality({i \in 1..Len(trace) : trace[i] = "parse"}) <= 1
    /\ trace # <<>> => trace[1] = "classify"
    /\ Len(called) = Cardinality({i \in 1..Len(trace) : trace[i] = "provider"})

\* why the Fallback Synthesizer may run for the request at hand
SynthesizerDue ==
    \/ ~CredentialA /\ ~CredentialB /\ ~CredentialC
    \/ reply.kind \in {"raise", "none", "noshape"}
    \/ /\ reply.kind = "ok"
       /\ \/ ParseOfReply.raises
          \/ ParseOfReply.files = <<>>
          \/ _is_fallback_code(ParseOfReply)

\* C29: in every run of process_query the steps occur in the order classify, at most
\* one provider call, parse, synthesize; the parser runs only on a reply the provider
\* call returned; the Fallback Synthesizer runs only when no credential is present,
\* the provider call or the parse raised, or the parse is empty or fallback-quality;
\* no provider call follows the synthesizer.
C29_PipelineOrder ==
    /\ StepsInOrder
    /\ "parse" \in Range(trace) =>
          /\ pc = "done" /\ codebase
          /\ "provider" \in Range(trace)
          /\ reply.kind = "ok"
    /\ "synthesize" \in Range(trace) =>
          /\ pc = "done" /\ codebase
          /\ SynthesizerDue

\* a reply was parsed, found fallback-quality and replaced
C29_Witness ==
    /\ pc = "done"
    /\ trace = <<"classify", "provider", "parse", "synthesize">>
    /\ reply.kind = "ok"
    /\ ~ParseOfReply.raises
    /\ ParseOfReply.files # <<>>

====
